---- MODULE Spec2Model ----
(***************************************************************************)
(* A model of the ingestion engine of django-fileindex:                    *)
(*   - the placement engine (fileindex/fileutils.py: smartadd, smartlink,  *)
(*     smartcopy, on_same_filesystem, same_contents) over a small POSIX    *)
(*     file system (directory entries, inodes, devices, parent dirs);      *)
(*   - the storage path of an artifact (fileindex/models.py);              *)
(*   - the metadata / corruption classifier (fileindex/services).          *)
(***************************************************************************)
EXTENDS Integers, Sequences, FiniteSets, TLC

(***************************************************************************)
(* Bounds of the model.                                                    *)
(***************************************************************************)
MaxCalls  == 2         \* sequential smartadd calls in one behaviour
DirDepth  == 2         \* directories between the media root and dst
DigestLen == 4         \* characters of a base-32 digest before its padding
MaxChunks == 3         \* chunks of a WebP file
MaxFileSize == 5      \* bytes of a hashed file
MaxBatch  == 2         \* paths in the list of one batch import
MaxScanChunks == 2     \* chunks of a WebP file whose chunk loop is followed
MaxIngests == 2        \* ingestions of one content, one after another

(***************************************************************************)
(* The file system.                                                        *)
(*   ent[p]  : the inode the directory entry p names, 0 when p is absent   *)
(*   ino[i]  : the inode i (device, bytes, mtime), NoInode when free       *)
(*   dirs[k] : the device of the k-th ancestor directory of dst, counted   *)
(*             from the media root (k = 0), 0 when it does not exist       *)
(*   sdev[s] : the device of the (existing) directory of source path s     *)
(* Paths: two source paths, the destination, and one more name in the      *)
(* destination's directory (another hard link of the canonical file).      *)
(***************************************************************************)
Paths    == {"s1", "s2", "d", "o"}
Sources  == {"s1", "s2"}
Dst      == "d"
Other    == "o"
Inos     == 1..Cardinality(Paths)
\* Devices and modification times are only ever compared for equality, and
\* file contents only by size and by bytes: two devices, two times and
\* three byte strings (two of one size, one of another) give every case.
Devs     == {1, 2}
Mtimes   == {1, 2}
Contents == {<<0>>, <<1>>, <<0, 0>>}
NoInode  == [dev |-> 0, data |-> <<>>, mtime |-> 0]
Procs    == {1, 2}

VARIABLES
    pIn, pOut,          \* storage paths: digests and MEDIA_ROOT, and the result
    mIn, mOut,          \* the classifier: what the file is, and the result
    ent, ino, dirs,     \* the file system
    sdev,               \* sdev[s]: the device of source path s's directory
    proc,               \* proc[p]: position of caller p inside smartadd
    hist,               \* completed sequential calls, with the fs before each
    aFile, aOut,        \* the duration parsers: the file, and the result
    scan,               \* the position inside a parser's loop
    cat, call,          \* the catalog with its store, and the last call on it
    hIn, hSt, ing,      \* hashing: the file and callback, the position
                        \* inside hash_file, and the ingestion around it
    tIn, tOut,          \* the ThumbHash encoder: the image, and the result
    iIn, iSt,           \* the import service: the call, and its progress
    wCache, wLast       \* the watch handler: processed_files, the last event

parseVars == <<aFile, aOut, scan>>
hashVars  == <<hIn, hSt, ing>>
thumbVars == <<tIn, tOut>>
importVars == <<iIn, iSt>>
watchVars == <<wCache, wLast>>
catVars   == <<cat, call>>
svcVars   == <<importVars, watchVars, catVars>>
extVars   == <<parseVars, hashVars, thumbVars, svcVars>>

fsvars == <<ent, ino, dirs, sdev>>

FS == [ent |-> ent, ino |-> ino, dirs |-> dirs, sdev |-> sdev]

Exists(F, p) == F.ent[p] # 0

\* os.stat(p).st_nlink: the number of directory entries naming p's inode
NLinkOf(F, i) == Cardinality({q \in Paths : F.ent[q] = i})

\* os.stat(p).st_dev
StDev(F, p) == F.ino[F.ent[p]].dev

DataOf(F, p) == F.ino[F.ent[p]].data

MtimeOf(F, p) == F.ino[F.ent[p]].mtime

\* os.stat(p).st_size
SizeOf(F, p) == Len(DataOf(F, p))

\* Path.samefile: same device and inode number (inode ids are unique
\* across devices here, so the id alone is the identity)
SameFile(F, a, b) == F.ent[a] = F.ent[b]

\* the deepest ancestor directory of dst that exists (the root always does)
RECURSIVE NearestExisting(_, _)
NearestExisting(F, k) ==
    IF k = 0 \/ F.dirs[k] # 0 THEN k ELSE NearestExisting(F, k - 1)

\* the device a file created at dst lands on
DstDirDev(F) == F.dirs[NearestExisting(F, DirDepth)]

\* fileutils.on_same_filesystem (sources always have existing parents)
on_same_filesystem(F, src) ==
    LET src_st_dev == StDev(F, src)
        dst_st_dev == IF Exists(F, Dst) THEN StDev(F, Dst) ELSE DstDirDev(F)
    IN  src_st_dev = dst_st_dev

\* filecmp._sig: (file type, size, mtime); every file here is regular
Sig(F, p) == <<SizeOf(F, p), MtimeOf(F, p)>>

\* filecmp.cmp(f1, f2) with its default shallow=True: equal signatures are
\* taken as equal files without reading them; otherwise sizes, then bytes
filecmp_cmp(F, a, b) ==
    IF Sig(F, a) = Sig(F, b) THEN TRUE
    ELSE IF SizeOf(F, a) # SizeOf(F, b) THEN FALSE
    ELSE DataOf(F, a) = DataOf(F, b)

\* fileutils.same_contents: True or (after printing a summary) None
same_contents(F, a, b) == filecmp_cmp(F, a, b)

\* Path.unlink: remove the entry; the inode is freed with its last link
Unlink(F, p) ==
    LET i == F.ent[p]
    IN  [F EXCEPT !.ent[p] = 0,
                  !.ino[i] = IF NLinkOf(F, i) = 1 THEN NoInode ELSE @]

\* os.link(target, p): p becomes one more name of target's inode
HardLink(F, p, target) == [F EXCEPT !.ent[p] = F.ent[target]]

\* Path.mkdir(parents=True, exist_ok=True) on dst's parent: the missing
\* directories are created on the device of the nearest existing one
MkdirParents(F) ==
    [F EXCEPT !.dirs = [k \in 0..DirDepth |-> IF F.dirs[k] # 0 THEN F.dirs[k]
                                              ELSE DstDirDev(F)]]

FreeIno(F) == CHOOSE i \in Inos : F.ino[i] = NoInode /\
                 \A j \in Inos : F.ino[j] = NoInode => i <= j

\* shutil.copy2(src, dst): a new file at dst with src's bytes (copyfile)
\* and src's modification time (copystat)
\* (an existing dst is opened for writing and overwritten in place)
Copy2(F, src) ==
    LET i == IF Exists(F, Dst) THEN F.ent[Dst] ELSE FreeIno(F)
    IN  [F EXCEPT !.ent[Dst] = i,
                  !.ino[i] = [dev |-> DstDirDev(F), data |-> DataOf(F, src),
                              mtime |-> MtimeOf(F, src)]]

(***************************************************************************)
(* smartadd, one file-system call per step.  L is the caller's position:   *)
(* pc, the source path, only_hard_link, the outcome once it ended          *)
(* ("running" before that; "ok" for a return, else the exception raised),  *)
(* and mods, the number of its calls so far that changed the file system.  *)
(***************************************************************************)
Outcomes == {"running", "ok", "AssertionError", "CannotHardLinkError",
             "FileExistsError", "FileNotFoundError", "OSError"}

Idle == [pc |-> "idle", src |-> "s1", ohl |-> FALSE, out |-> "ok", mods |-> 0]

Begin(src, ohl) ==
    [pc |-> "sa_exists", src |-> src, ohl |-> ohl, out |-> "running", mods |-> 0]

Goto(F, L, pc) == [F |-> F, L |-> [L EXCEPT !.pc = pc]]

Return(F, L) == [F |-> F, L |-> [L EXCEPT !.pc = "end", !.out = "ok"]]

\* L after a call that turned the file system F into G
Modified(F, G, L) == [L EXCEPT !.mods = IF F = G THEN @ ELSE @ + 1]

Raise(F, L, exc) == [F |-> F, L |-> [L EXCEPT !.pc = "end", !.out = exc]]

\* fileutils.py:81  dst_path.exists()
sa_exists(F, L) ==
    IF Exists(F, Dst) THEN Goto(F, L, "sa_samefile") ELSE Goto(F, L, "sa_samefs")

\* variant: no early return for the same file
sa_samefile_no_return(F, L) ==
    IF ~Exists(F, L.src) \/ ~Exists(F, Dst) THEN Raise(F, L, "FileNotFoundError")
    ELSE Goto(F, L, "sa_samefs")

\* fileutils.py:81-82  src_path.samefile(dst_path) (stats both) -> return True
sa_samefile(F, L) ==
    IF ~Exists(F, L.src) \/ ~Exists(F, Dst) THEN Raise(F, L, "FileNotFoundError")
    ELSE IF SameFile(F, L.src, Dst) THEN Return(F, L)
    ELSE Goto(F, L, "sa_samefs")

\* variant: only_hard_link is not looked at
sa_samefs_ignores_flag(F, L) ==
    IF ~Exists(F, L.src) THEN Raise(F, L, "FileNotFoundError")
    ELSE IF on_same_filesystem(F, L.src) THEN Goto(F, L, "sl_assert")
    ELSE Goto(F, L, "sc_assert")

\* fileutils.py:84-89  on_same_filesystem, then the dispatch
sa_samefs(F, L) ==
    IF ~Exists(F, L.src) THEN Raise(F, L, "FileNotFoundError")
    ELSE IF on_same_filesystem(F, L.src) THEN Goto(F, L, "sl_assert")
    ELSE IF L.ohl THEN Raise(F, L, "CannotHardLinkError")
    ELSE Goto(F, L, "sc_assert")

\* fileutils.py:129  assert src_path.exists()
sl_assert(F, L) ==
    IF Exists(F, L.src) THEN Goto(F, L, "sl_exists") ELSE Raise(F, L, "AssertionError")

\* fileutils.py:130  if dst_path.exists()
sl_exists(F, L) ==
    IF Exists(F, Dst) THEN Goto(F, L, "sl_cmp") ELSE Goto(F, L, "sl_mkdir")

\* variant: equal contents are taken as done, src is not re-linked to dst
sl_cmp_no_relink(F, L) ==
    IF ~Exists(F, L.src) \/ ~Exists(F, Dst) THEN Raise(F, L, "FileNotFoundError")
    ELSE IF same_contents(F, L.src, Dst) THEN Return(F, L)
    ELSE Raise(F, L, "AssertionError")

\* fileutils.py:131  assert same_contents(src, dst)
sl_cmp(F, L) ==
    IF ~Exists(F, L.src) \/ ~Exists(F, Dst) THEN Raise(F, L, "FileNotFoundError")
    ELSE IF same_contents(F, L.src, Dst) THEN Goto(F, L, "sl_unlink")
    ELSE Raise(F, L, "AssertionError")

\* fileutils.py:136  src_path.unlink()
sl_unlink(F, L) ==
    IF ~Exists(F, L.src) THEN Raise(F, L, "FileNotFoundError")
    ELSE Goto(Unlink(F, L.src), Modified(F, Unlink(F, L.src), L), "sl_relink")

\* os.link(target, p): EEXIST, ENOENT and EXDEV are its error returns
LinkError(F, p, pdev, target) ==
    IF ~Exists(F, target) THEN "FileNotFoundError"
    ELSE IF Exists(F, p) THEN "FileExistsError"
    ELSE IF StDev(F, target) # pdev THEN "OSError"
    ELSE "ok"

\* variant: src is left unlinked, no hard link to dst is made in its place
sl_relink_skipped(F, L) == Return(F, L)

\* fileutils.py:139-140  src_path.hardlink_to(dst_path); return
sl_relink(F, L) ==
    LET e == LinkError(F, L.src, F.sdev[L.src], Dst)
    IN  IF e = "ok"
        THEN Return(HardLink(F, L.src, Dst), Modified(F, HardLink(F, L.src, Dst), L))
        ELSE Raise(F, L, e)

\* fileutils.py:141  dst_path.parent.mkdir(parents=True, exist_ok=True)
sl_mkdir(F, L) == Goto(MkdirParents(F), Modified(F, MkdirParents(F), L), "sl_link")

\* fileutils.py:142  dst_path.hardlink_to(src_path)
sl_link(F, L) ==
    LET e == LinkError(F, Dst, DstDirDev(F), L.src)
    IN  IF e = "ok"
        THEN Return(HardLink(F, Dst, L.src), Modified(F, HardLink(F, Dst, L.src), L))
        ELSE Raise(F, L, e)

\* fileutils.py:96  assert src_path.exists()
sc_assert(F, L) ==
    IF Exists(F, L.src) THEN Goto(F, L, "sc_exists") ELSE Raise(F, L, "AssertionError")

\* variant: copies without looking for an existing dst
sc_exists_always_copies(F, L) == Goto(F, L, "sc_mkdir")

\* fileutils.py:97  if dst_path.exists()
sc_exists(F, L) ==
    IF Exists(F, Dst) THEN Goto(F, L, "sc_cmp") ELSE Goto(F, L, "sc_mkdir")

\* fileutils.py:98-99  assert same_contents(src, dst); return False
sc_cmp(F, L) ==
    IF ~Exists(F, L.src) \/ ~Exists(F, Dst) THEN Raise(F, L, "FileNotFoundError")
    ELSE IF same_contents(F, L.src, Dst) THEN Return(F, L)
    ELSE Raise(F, L, "AssertionError")

\* fileutils.py:100  dst_path.parent.mkdir(parents=True, exist_ok=True)
sc_mkdir(F, L) == Goto(MkdirParents(F), Modified(F, MkdirParents(F), L), "sc_copy")

\* fileutils.py:101-102  shutil.copy2(src, dst); return True
sc_copy(F, L) ==
    IF ~Exists(F, L.src) THEN Raise(F, L, "FileNotFoundError")
    ELSE Return(Copy2(F, L.src), [L EXCEPT !.mods = @ + 1])

\* one step of a caller inside smartadd
Step(F, L) ==
    CASE L.pc = "sa_exists"   -> sa_exists(F, L)
      [] L.pc = "sa_samefile" -> sa_samefile(F, L)
      [] L.pc = "sa_samefs"   -> sa_samefs(F, L)
      [] L.pc = "sl_assert"   -> sl_assert(F, L)
      [] L.pc = "sl_exists"   -> sl_exists(F, L)
      [] L.pc = "sl_cmp"      -> sl_cmp(F, L)
      [] L.pc = "sl_unlink"   -> sl_unlink(F, L)
      [] L.pc = "sl_relink"   -> sl_relink(F, L)
      [] L.pc = "sl_mkdir"    -> sl_mkdir(F, L)
      [] L.pc = "sl_link"     -> sl_link(F, L)
      [] L.pc = "sc_assert"   -> sc_assert(F, L)
      [] L.pc = "sc_exists"   -> sc_exists(F, L)
      [] L.pc = "sc_cmp"      -> sc_cmp(F, L)
      [] L.pc = "sc_mkdir"    -> sc_mkdir(F, L)
      [] L.pc = "sc_copy"     -> sc_copy(F, L)

\* fileutils.smartadd run to its end with no other caller in between
RECURSIVE RunToEnd(_, _)
RunToEnd(F, L) ==
    IF L.pc = "end" THEN [F |-> F, L |-> L]
    ELSE LET n == Step(F, L) IN RunToEnd(n.F, n.L)

smartadd(F, src, ohl) == RunToEnd(F, Begin(src, ohl))

(***************************************************************************)
(* Digest text and storage paths.  A text is a sequence of characters, a   *)
(* path is [abs, parts]: whether it is absolute, and its components.       *)
(***************************************************************************)
B32 == {"A", "B"}

\* base64.b32encode of a sha512 digest: the characters, then "=" padding
\* (64 bytes encode to 103 characters and one "=")
B32Encodings == {e \o <<"=">> : e \in [1..DigestLen -> B32]}

\* str.rstrip("=")
RECURSIVE RStripPad(_)
RStripPad(t) ==
    IF t # <<>> /\ t[Len(t)] = "=" THEN RStripPad(SubSeq(t, 1, Len(t) - 1)) ELSE t

\* fileutils.py:40  "sha512" of hash_file, from the digest's base-32 text
hash_file_sha512(b32) == RStripPad(b32)

\* t[a:b] of Python, 0 <= a <= b
Slice(t, a, b) == SubSeq(t, a + 1, IF b < Len(t) THEN b ELSE Len(t))

\* pathlib's `/` with one more component (an empty one adds nothing)
Join(parts, c) == IF c = <<>> THEN parts ELSE Append(parts, c)

\* variant: the second level is cut one character early
IndexedFile_path_off_by_one(sha512) ==
    LET hash_no_padding == RStripPad(sha512)
    IN  Join(Join(Join(<<<<"fileindex">>>>, Slice(hash_no_padding, 0, 2)),
                  Slice(hash_no_padding, 1, 3)),
             hash_no_padding)

\* models.py:331-345  IndexedFile.path, as path components
IndexedFile_path(sha512) ==
    LET hash_no_padding == RStripPad(sha512)
    IN  Join(Join(Join(<<<<"fileindex">>>>, Slice(hash_no_padding, 0, 2)),
                  Slice(hash_no_padding, 2, 4)),
             hash_no_padding)

\* the process's working directory
Cwd == <<<<"app">>>>

\* ".." steps back, "." stays
RECURSIVE Normalize(_, _)
Normalize(done, rest) ==
    IF rest = <<>> THEN done
    ELSE IF Head(rest) = <<"..">>
         THEN Normalize(IF done = <<>> THEN done ELSE SubSeq(done, 1, Len(done) - 1),
                        Tail(rest))
    ELSE IF Head(rest) = <<".">> THEN Normalize(done, Tail(rest))
    ELSE Normalize(Append(done, Head(rest)), Tail(rest))

\* Path.resolve(): absolute and normalised (no symbolic links here)
Resolve(p) ==
    [abs |-> TRUE,
     parts |-> Normalize(<<>>, IF p.abs THEN p.parts ELSE Cwd \o p.parts)]

\* models.py:184-185  media_root / indexedfile.path
dest_path(media_root, sha512) ==
    LET root == Resolve(media_root)
    IN  [abs |-> TRUE, parts |-> root.parts \o IndexedFile_path(sha512)]

\* settings.MEDIA_ROOT as configured
MediaRoots ==
    {[abs |-> TRUE, parts |-> <<<<"srv">>, <<"media">>>>],
     [abs |-> FALSE, parts |-> <<<<"media">>>>],
     [abs |-> FALSE, parts |-> <<<<"..">>, <<"media">>>>]}

NoPathIn  == [b32 |-> <<<<"=">>, <<"=">>>>, root |-> [abs |-> TRUE, parts |-> <<>>]]
NoPathOut == [k \in {} |-> 0]

(***************************************************************************)
(* The metadata / corruption classifier.                                   *)
(*                                                                         *)
(* Python values: a JSON value is [t, v] with t one of "none" (None,       *)
(* absent), "int", "numstr" (the text of the number v) and "str" (text      *)
(* that is no number).  A dict is a function from its keys; {} is Empty.   *)
(* A frame rate float(num) / float(den) is kept as the fraction [num, den].*)
(* A call returns Ok(value) or raises: Err(exception).                     *)
(***************************************************************************)
None      == [t |-> "none", v |-> 0]
JInt(n)   == [t |-> "int", v |-> n]
NumStr(n) == [t |-> "numstr", v |-> n]
Str       == [t |-> "str", v |-> 0]
Empty     == [k \in {} |-> None]

Ok(v)  == [exc |-> "none", val |-> v]
Err(e) == [exc |-> e, val |-> Empty]

Has(d, k) == k \in DOMAIN d

\* d[k] = v
Put(d, k, v) == [x \in DOMAIN d \cup {k} |-> IF x = k THEN v ELSE d[x]]

\* d.get(k)
Get(d, k) == IF Has(d, k) THEN d[k] ELSE None

\* bool(x)
Truthy(x) == CASE x.t = "none" -> FALSE
               [] x.t = "int"  -> x.v # 0
               [] OTHER        -> TRUE

\* variant: the sign of the fraction is not looked at
FracPositive_any_sign(f) == TRUE

\* a fraction as a number: is it > 0, is it 0.0
FracPositive(f) == f.num * f.den > 0
FracZero(f)     == f.num = 0

\* the three ways a try block ends: a return statement, an exception, or
\* its last statement; md is the metadata dict as filled so far
Returned(md, corrupt) == [kind |-> "return", md |-> md, corrupt |-> corrupt]
Raised(md, exc)       == [kind |-> "raise", md |-> md, exc |-> exc]
FellThrough(md)       == [kind |-> "end", md |-> md]

\* what a family extractor hands back: (metadata, is_corrupt)
Result(md, corrupt) == [metadata |-> md, corrupt |-> corrupt]

\* ffprobe.run_ffprobe: the parsed JSON, or None when the tool exits
\* non-zero, times out, raises another SubprocessError or prints invalid
\* JSON; a tool that is not installed raises FileNotFoundError, which
\* run_ffprobe does not catch
run_ffprobe(probe) ==
    CASE probe.run = "ok"       -> Ok(probe.data)
      [] probe.run = "nonzero"  -> Ok([shape |-> "none"])
      [] probe.run = "timeout"  -> Ok([shape |-> "none"])
      [] probe.run = "suberror" -> Ok([shape |-> "none"])
      [] probe.run = "badjson"  -> Ok([shape |-> "none"])
      [] probe.run = "missing"  -> Err("FileNotFoundError")

\* `not ffprobe_data`: None, {} , [] ...
Falsy(data) == data.shape \in {"none", "empty"}

\* media_metadata.py:168-174  parse r_frame_rate into video_info
ParseFrameRate(video_info, stream) ==
    LET r == IF stream.r_frame_rate.k = "absent"
             THEN [k |-> "ratio", num |-> 0, den |-> 1]      \* the default "0/1"
             ELSE stream.r_frame_rate
    IN  CASE r.k = "nonstring" -> Err("TypeError")           \* "/" in 30
          [] r.k = "noslash"   -> Ok(video_info)
          [] r.k = "badparts"  -> Ok(video_info)             \* ValueError: pass
          [] r.k = "ratio"     ->
                IF r.den # 0
                THEN Ok(Put(video_info, "frame_rate", [num |-> r.num, den |-> r.den]))
                ELSE Ok(video_info)

\* float(duration) * 1000
ToMillis(x) == x.v * 1000

\* media_metadata.py:131-215  _extract_video_metadata_from_ffprobe
extract_video_metadata_from_ffprobe(data) ==
    IF data.shape = "nondict" THEN Err("AttributeError")     \* data.get
    ELSE
    LET vs == data.video
        as == data.audio
        hasV == vs.present
        hasA == as.present
        vinfo0 == [codec |-> "h264", width |-> vs.width, height |-> vs.height]
        vinfo == IF hasV THEN ParseFrameRate(vinfo0, vs) ELSE Ok(Empty)
        d0 == IF data.hasFormat THEN data.formatDuration ELSE None
        d1 == IF d0.t = "none" /\ hasV THEN vs.duration ELSE d0
        duration == IF d1.t = "none" /\ hasA THEN as.duration ELSE d1
        m1 == IF hasV THEN Put(Empty, "video", vinfo.val) ELSE Empty
        m2 == IF hasA THEN Put(m1, "audio", [codec |-> "aac"]) ELSE m1
        m3 == IF Truthy(duration) /\ duration.t \in {"int", "numstr"}
              THEN Put(m2, "duration", ToMillis(duration))
              ELSE m2                                         \* suppress(ValueError)
    IN  IF vinfo.exc # "none" THEN vinfo
        ELSE Ok(Put(m3, "ffprobe", [version |-> "v", data |-> data]))

\* media_metadata.py:218-285  _extract_audio_metadata_from_ffprobe
extract_audio_metadata_from_ffprobe(data) ==
    IF data.shape = "nondict" THEN Err("AttributeError")
    ELSE
    LET as == data.audio
        m1 == IF as.present THEN Put(Empty, "audio", [codec |-> "aac"]) ELSE Empty
        duration == IF data.hasFormat THEN data.formatDuration ELSE None
        m2 == IF Truthy(duration) /\ duration.t \in {"int", "numstr"}
              THEN Put(m1, "duration", ToMillis(duration))
              ELSE m1                                 \* suppress(ValueError, TypeError)
    IN  Ok(Put(m2, "ffprobe", [version |-> "v", data |-> data]))

\* mediainfo_analysis.extract_filtered_mediainfo_metadata: raises ImportError
\* when pymediainfo is unusable and ValueError when the file is missing or
\* MediaInfo.parse fails (every exception of the parse is re-raised as
\* ValueError); otherwise the filtered dict, which always has "version"
extract_filtered_mediainfo_metadata(mi) ==
    CASE mi = "unavailable" -> Err("ImportError")
      [] mi = "parsefails"  -> Err("ValueError")
      [] mi = "versiononly" -> Ok([version |-> "v"])
      [] mi = "data"        -> Ok([version |-> "v", general |-> "g"])

\* variant: only ImportError is caught
extract_mediainfo_metadata_import_only(mi) ==
    LET r == extract_filtered_mediainfo_metadata(mi)
    IN  IF r.exc \in {"ImportError"} THEN Ok(None)
        ELSE IF r.exc # "none" THEN r
        ELSE IF Cardinality(DOMAIN r.val) > 1 THEN r
        ELSE Ok(None)

\* media_metadata.py:288-307  _extract_mediainfo_metadata: the dict when it
\* has more than the version, else None; ImportError and ValueError caught
extract_mediainfo_metadata(mi) ==
    LET r == extract_filtered_mediainfo_metadata(mi)
    IN  IF r.exc \in {"ImportError", "ValueError"} THEN Ok(None)
        ELSE IF r.exc # "none" THEN r
        ELSE IF Cardinality(DOMAIN r.val) > 1 THEN r
        ELSE Ok(None)

\* the tail shared by both extractors (media_metadata.py:69-72, 119-122)
AddMediaInfo(md, mi) ==
    LET r == extract_mediainfo_metadata(mi)
    IN  IF r.exc # "none" THEN Raised(md, r.exc)
        ELSE IF r.val = None THEN FellThrough(md)
        ELSE FellThrough(Put(md, "mediainfo", r.val))

\* x > 0 on a JSON value: a TypeError unless it is a number
GtZeroRaises(x) == x.t # "int"

\* media_metadata.py:27-72  the try block of extract_video_metadata
video_try(probe, mi) ==
    LET p == run_ffprobe(probe)
    IN  IF p.exc # "none" THEN Raised(Empty, p.exc)
        ELSE IF Falsy(p.val) THEN Returned(Empty, TRUE)
        ELSE
        LET x == extract_video_metadata_from_ffprobe(p.val)
        IN  IF x.exc # "none" THEN Raised(Empty, x.exc)
            ELSE IF ~Has(x.val, "video") THEN Returned(Empty, TRUE)
            ELSE
            LET video == x.val["video"]
                w == video["width"]
                h == video["height"]
            IN  \* not (width and height and width > 0 and height > 0)
                IF ~Truthy(w) \/ ~Truthy(h) THEN Returned(Empty, TRUE)
                ELSE IF GtZeroRaises(w) THEN Raised(Empty, "TypeError")
                ELSE IF ~(w.v > 0) THEN Returned(Empty, TRUE)
                ELSE IF GtZeroRaises(h) THEN Raised(Empty, "TypeError")
                ELSE IF ~(h.v > 0) THEN Returned(Empty, TRUE)
                \* not frame_rate or frame_rate <= 0
                ELSE IF ~Has(video, "frame_rate") THEN Returned(Empty, TRUE)
                ELSE IF FracZero(video["frame_rate"]) \/ ~FracPositive(video["frame_rate"])
                     THEN Returned(Empty, TRUE)
                \* "duration" not in video_metadata or duration <= 0
                ELSE IF ~Has(x.val, "duration") THEN Returned(Empty, TRUE)
                ELSE IF x.val["duration"] <= 0 THEN Returned(Empty, TRUE)
                ELSE
                LET m1 == Put(Empty, "video", video)
                    m2 == Put(m1, "duration", x.val["duration"])
                    m3 == IF Has(x.val, "audio") THEN Put(m2, "audio", x.val["audio"])
                          ELSE m2
                    m4 == IF Has(x.val, "ffprobe") THEN Put(m3, "ffprobe", x.val["ffprobe"])
                          ELSE m3
                IN  AddMediaInfo(m4, mi)

\* variant: the except clause logs but leaves is_corrupt as it was
CatchAll_log_only(t) ==
    CASE t.kind = "return" -> Result(t.md, t.corrupt)
      [] t.kind = "raise"  -> Result(t.md, FALSE)
      [] t.kind = "end"    -> Result(t.md, FALSE)

\* a try block under `except Exception: is_corrupt = True`, followed by
\* `return metadata, is_corrupt`
CatchAll(t) ==
    CASE t.kind = "return" -> Result(t.md, t.corrupt)
      [] t.kind = "raise"  -> Result(t.md, TRUE)
      [] t.kind = "end"    -> Result(t.md, FALSE)

\* media_metadata.py:15-78  extract_video_metadata
extract_video_metadata(probe, mi) == CatchAll(video_try(probe, mi))

\* media_metadata.py:93-122  the try block of extract_audio_metadata
audio_try(probe, mi) ==
    LET p == run_ffprobe(probe)
    IN  IF p.exc # "none" THEN Raised(Empty, p.exc)
        ELSE IF Falsy(p.val) THEN Returned(Empty, TRUE)
        ELSE
        LET x == extract_audio_metadata_from_ffprobe(p.val)
        IN  IF x.exc # "none" THEN Raised(Empty, x.exc)
            ELSE IF ~Has(x.val, "duration") THEN Returned(Empty, TRUE)
            ELSE IF x.val["duration"] <= 0 THEN Returned(Empty, TRUE)
            ELSE
            LET m1 == Put(Empty, "duration", x.val["duration"])
                m2 == IF Has(x.val, "audio") THEN Put(m1, "audio", x.val["audio"])
                      ELSE m1
                m3 == IF Has(x.val, "ffprobe") THEN Put(m2, "ffprobe", x.val["ffprobe"])
                      ELSE m2
            IN  AddMediaInfo(m3, mi)

\* media_metadata.py:81-128  extract_audio_metadata
extract_audio_metadata(probe, mi) == CatchAll(audio_try(probe, mi))

\* image_metadata.py:21-25  ANIMATED_IMAGE_FORMATS
ANIMATED_IMAGE_FORMATS == {"image/gif", "image/webp", "image/avif"}

\* image_metadata.py:116-145  _extract_animated_duration: the duration the
\* format's parser reports (parse_avif_duration, parse_webp_duration or the
\* Pillow frame walk for GIF), None for another format or when it raises
extract_animated_duration(img, mime_type) ==
    IF mime_type \in {"image/avif", "image/webp", "image/gif"}
    THEN IF img.anim.t = "raise" THEN None ELSE img.anim
    ELSE None

\* image_metadata.py:94-113  _generate_thumbhash: hex text, None on any error
generate_thumbhash(img) == IF img.thumb = "ok" THEN Str ELSE None

\* a variant of the test at line 71 that only asks for a truthy duration
PositiveDuration_truthy(duration_ms) == Truthy(duration_ms)

\* image_metadata.py:71  duration_ms and duration_ms > 0
PositiveDuration(duration_ms) == Truthy(duration_ms) /\ duration_ms.v > 0

\* image_metadata.py:47-85  the try block of extract_image_metadata
image_try(img, mime_type) ==
    IF img.open = "raises" THEN Raised(Empty, "UnidentifiedImageError")
    ELSE IF ~(img.width > 0 /\ img.height > 0) THEN Returned(Empty, TRUE)
    ELSE
    LET info1 == [width |-> img.width, height |-> img.height]
        thumbhash == generate_thumbhash(img)
    IN  IF ~Truthy(thumbhash) THEN Returned(Empty, TRUE)
        ELSE
        LET info2 == Put(info1, "thumbhash", thumbhash)
            duration_ms == IF mime_type \in ANIMATED_IMAGE_FORMATS
                           THEN extract_animated_duration(img, mime_type)
                           ELSE None
            animated == mime_type \in ANIMATED_IMAGE_FORMATS
                        /\ PositiveDuration(duration_ms)
            m1 == IF animated THEN Put(Empty, "duration", duration_ms.v) ELSE Empty
            m2 == Put(m1, "image", Put(info2, "animated", animated))
        IN  \* image_metadata.py:83-85: the dimensions are there by now
            IF ~Has(m2, "image") \/ ~Has(m2["image"], "width")
                                 \/ ~Has(m2["image"], "height")
            THEN Returned(m2, TRUE)
            ELSE FellThrough(m2)

\* image_metadata.py:30-91  extract_image_metadata
extract_image_metadata(img, mime_type) == CatchAll(image_try(img, mime_type))

\* str.startswith on the mime types of the model
MimeTypes == {"image/png", "image/gif", "image/webp", "image/avif",
              "video/mp4", "audio/mpeg", "text/plain"}

StartsWith(m, prefix) ==
    CASE prefix = "image/" -> m \in {"image/png", "image/gif", "image/webp", "image/avif"}
      [] prefix = "video/" -> m = "video/mp4"
      [] prefix = "audio/" -> m = "audio/mpeg"

\* metadata.py:30-33  the mime type in use: the argument, or what
\* mimetypes.guess_type makes of the path ("none": no guess)
MimeInUse(in) == IF in.mime = "none" THEN in.guess ELSE in.mime

\* metadata.py:14-50  extract_metadata: what the caller gets, exc "none"
\* when the call returns
extract_metadata(in) ==
    LET mime_type == MimeInUse(in)
        r == IF mime_type # "none" /\ StartsWith(mime_type, "image/")
             THEN Ok(extract_image_metadata(in.img, mime_type))
             ELSE IF mime_type # "none" /\ StartsWith(mime_type, "video/")
             THEN Ok(extract_video_metadata(in.probe, in.mi))
             ELSE IF mime_type # "none" /\ StartsWith(mime_type, "audio/")
             THEN Ok(extract_audio_metadata(in.probe, in.mi))
             ELSE Ok(Result(Empty, FALSE))
    IN  IF r.exc # "none"
        THEN [done |-> FALSE, exc |-> "none", metadata |-> Empty, corrupt |-> TRUE]
        ELSE [done |-> FALSE, exc |-> "none", metadata |-> r.val.metadata,
              corrupt |-> r.val.corrupt]

(***************************************************************************)
(* The files the classifier is tried on.                                   *)
(***************************************************************************)
NoImage == [open |-> "raises", width |-> 0, height |-> 0, thumb |-> "fail",
            anim |-> None]

Images ==
    {NoImage} \cup
    [open : {"ok"}, width : {-1, 0, 3}, height : {0, 3}, thumb : {"ok", "fail"},
     anim : {None, JInt(0), JInt(-40), JInt(40), [t |-> "raise", v |-> 0]}]

NoStream == [present |-> FALSE, width |-> None, height |-> None,
             r_frame_rate |-> [k |-> "absent"], duration |-> None]

FrameRates ==
    {[k |-> "absent"], [k |-> "nonstring"], [k |-> "noslash"], [k |-> "badparts"]}
    \cup [k : {"ratio"}, num : {0, 30, -30}, den : {0, 1}]

VideoStreams ==
    {NoStream} \cup
    [present : {TRUE}, width : {None, JInt(0), JInt(-1), JInt(2), Str},
     height : {None, JInt(0), JInt(2)}, r_frame_rate : FrameRates,
     duration : {None, NumStr(3)}]

AudioStreams ==
    {NoStream} \cup
    [present : {TRUE}, width : {None}, height : {None},
     r_frame_rate : {[k |-> "absent"]}, duration : {None, NumStr(4)}]

FormatDurations == {None, Str, NumStr(0), NumStr(-1), NumStr(2)}

ProbeDicts ==
    {d \in [shape : {"dict"}, video : VideoStreams, audio : AudioStreams,
            hasFormat : BOOLEAN, formatDuration : FormatDurations] :
        ~d.hasFormat => d.formatDuration = None}

NoData == [shape |-> "none"]

Probes ==
    [run : {"nonzero", "timeout", "suberror", "badjson", "missing"}, data : {NoData}]
    \cup [run : {"ok"},
          data : {[shape |-> "empty"], [shape |-> "nondict"]} \cup ProbeDicts]

NoProbe == [run |-> "missing", data |-> NoData]

MediaInfos == {"unavailable", "parsefails", "versiononly", "data"}

\* (mime_type argument, guess of mimetypes.guess_type) giving a mime type of
\* the named family; the guess is only taken when the argument is None
MimePairs(family) ==
    LET ms == {m \in MimeTypes :
                 CASE family = "other" -> m = "text/plain"
                   [] OTHER -> StartsWith(m, family)}
    IN  {[mime |-> m, guess |-> "none"] : m \in ms}
        \cup {[mime |-> "none", guess |-> m] : m \in ms}
        \cup (IF family = "other" THEN {[mime |-> "none", guess |-> "none"]} ELSE {})

AudioProbes ==
    {p \in Probes : p.run = "ok" /\ p.data.shape = "dict" => p.data.video = NoStream}

MetaInputs ==
    {[mime |-> mp.mime, guess |-> mp.guess, img |-> i, probe |-> NoProbe,
      mi |-> "unavailable"] : mp \in MimePairs("image/"), i \in Images}
    \cup {[mime |-> mp.mime, guess |-> mp.guess, img |-> NoImage, probe |-> p,
           mi |-> mi] : mp \in MimePairs("video/"), p \in Probes, mi \in MediaInfos}
    \cup {[mime |-> mp.mime, guess |-> mp.guess, img |-> NoImage, probe |-> p,
           mi |-> mi] : mp \in MimePairs("audio/"), p \in AudioProbes, mi \in MediaInfos}
    \cup {[mime |-> mp.mime, guess |-> mp.guess, img |-> NoImage, probe |-> NoProbe,
           mi |-> "unavailable"] : mp \in MimePairs("other")}

(***************************************************************************)
(* The row made from the classifier's answer, and the check constraints of *)
(* IndexedFile.  A constraint is taken as violated whenever its condition  *)
(* is not true (the database also lets an unknown condition pass).         *)
(***************************************************************************)
\* variant: the corrupt flag of the classifier is not put on the row
IndexedFileRow_corrupt_unset(mime_type, metadata, is_corrupt) ==
    [mime_type |-> mime_type, metadata |-> metadata, corrupt |-> "None"]

\* models.py:144-172  the defaults of get_or_create: metadata when the
\* classifier's dict is not empty (the field's default is {}), corrupt
\* True when is_corrupt (the field's default is None)
IndexedFileRow(mime_type, metadata, is_corrupt) ==
    [mime_type |-> mime_type,
     metadata |-> IF metadata # Empty THEN metadata ELSE Empty,
     corrupt |-> IF is_corrupt THEN "True" ELSE "None"]

\* metadata__<a>__<b>__isnull=False: the key path exists
HasPath(md, a, b) == Has(md, a) /\ Has(md[a], b)

\* metadata__<a>__animated=True / metadata__animated=True
IsTrueAt(d, k) == Has(d, k) /\ d[k] = TRUE

\* models.py:273-292
visual_media_requires_dimensions(row) ==
    \/ row.corrupt = "True"
    \/ ~(StartsWith(row.mime_type, "image/") \/ StartsWith(row.mime_type, "video/"))
    \/ (Has(row.metadata, "width") /\ Has(row.metadata, "height"))
    \/ /\ StartsWith(row.mime_type, "image/")
       /\ HasPath(row.metadata, "image", "width")
       /\ HasPath(row.metadata, "image", "height")
    \/ /\ StartsWith(row.mime_type, "video/")
       /\ HasPath(row.metadata, "video", "width")
       /\ HasPath(row.metadata, "video", "height")

\* models.py:294-301
media_requires_duration(row) ==
    \/ row.corrupt = "True"
    \/ ~(StartsWith(row.mime_type, "audio/") \/ StartsWith(row.mime_type, "video/"))
    \/ Has(row.metadata, "duration")

\* models.py:304-314
video_requires_frame_rate(row) ==
    \/ row.corrupt = "True"
    \/ ~StartsWith(row.mime_type, "video/")
    \/ Has(row.metadata, "frame_rate")
    \/ HasPath(row.metadata, "video", "frame_rate")

\* models.py:317-327
animated_requires_duration(row) ==
    \/ row.corrupt = "True"
    \/ ~IsTrueAt(row.metadata, "animated")
    \/ ~(Has(row.metadata, "image") /\ IsTrueAt(row.metadata["image"], "animated"))
    \/ Has(row.metadata, "duration")

NoInput == [mime |-> "text/plain", guess |-> "none", img |-> NoImage,
            probe |-> NoProbe, mi |-> "unavailable"]

Pending == [done |-> FALSE, exc |-> "none", metadata |-> Empty, corrupt |-> FALSE]

(***************************************************************************)
(* The animated-container duration parsers                                 *)
(* (fileindex/services/animated_parsers.py).                               *)
(*                                                                         *)
(* A file is [exists, pad, tail]: pad filler bytes (zero) followed by the  *)
(* bytes of tail; a byte is a number 0..255.  An open file object is the   *)
(* file and a position; f.read(n) at position pos returns the              *)
(* ReadLen(f, pos, n) bytes from pos on, and a seek may go past the end.   *)
(***************************************************************************)
AVIF_SEARCH_BUFFER_SIZE == 8192
WEBP_CHUNK_HEADER_SIZE  == 8
ANMF_MIN_DATA_SIZE      == 16

MVHD           == <<109, 118, 104, 100>>       \* b"mvhd"
RIFF_SIGNATURE == <<82, 73, 70, 70>>           \* b"RIFF"
WEBP_SIGNATURE == <<87, 69, 66, 80>>           \* b"WEBP"
ANIM           == <<65, 78, 73, 77>>           \* b"ANIM"
ANMF           == <<65, 78, 77, 70>>           \* b"ANMF"

Min(a, b) == IF a < b THEN a ELSE b
Max(a, b) == IF a > b THEN a ELSE b

FileLen(f) == f.pad + Len(f.tail)

\* the byte at offset i (from 0) of the file
ByteAt(f, i) == IF i < f.pad THEN 0 ELSE f.tail[i - f.pad + 1]

\* len(f.read(n)) with the file object at position pos
ReadLen(f, pos, n) == IF pos >= FileLen(f) THEN 0 ELSE Min(n, FileLen(f) - pos)

\* the n bytes of the file from offset pos on
Bytes(f, pos, n) == [k \in 1..n |-> ByteAt(f, pos + k - 1)]

\* struct.unpack("<I", b)[0]
RECURSIVE LittleEndian(_)
LittleEndian(b) ==
    IF Len(b) = 0 THEN 0 ELSE b[1] + 256 * LittleEndian(Tail(b))

\* bytes.find(pat) on the bytes [lo, hi) of the file: the offset of the
\* first match counted from lo, -1 when there is none.  No match starts
\* inside the filler, whose bytes are zero.
BytesFind(f, lo, hi, pat) ==
    LET hits == {i \in Max(lo, f.pad)..(hi - Len(pat)) :
                    \A k \in 1..Len(pat) : ByteAt(f, i + k - 1) = pat[k]}
    IN  IF hits = {} THEN -1
        ELSE (CHOOSE i \in hits : \A j \in hits : i <= j) - lo

\* animated_parsers.py:106-121  one pass of the loop of
\* _find_mvhd_box_streaming (find_mvhd_read) and the loop itself, with
\* the file object at fpos; buffer holds the buflen bytes read just before
\* fpos, so search_data = buffer + chunk is the bytes [fpos - buflen, end
\* of chunk) of the file
find_mvhd_read(f, fpos, buflen, position) ==
    LET chunklen    == ReadLen(f, fpos, AVIF_SEARCH_BUFFER_SIZE)
        lo          == fpos - buflen
        hi          == fpos + chunklen
        mvhd_offset == BytesFind(f, lo, hi, MVHD)
    IN  [chunklen |-> chunklen,
         found    |-> chunklen > 0 /\ mvhd_offset # -1,
         result   |-> position + mvhd_offset,
         fpos     |-> hi,
         buflen   |-> Min(hi - lo, 8),
         position |-> position + chunklen]

RECURSIVE find_mvhd_loop(_, _, _, _)
find_mvhd_loop(f, fpos, buflen, position) ==
    LET r == find_mvhd_read(f, fpos, buflen, position)
    IN  IF r.chunklen = 0 THEN -1
        ELSE IF r.found THEN r.result
        ELSE find_mvhd_loop(f, r.fpos, r.buflen, r.position)

\* animated_parsers.py:100-123  _find_mvhd_box_streaming
find_mvhd_box_streaming(f) == find_mvhd_loop(f, 0, 0, 0)

(***************************************************************************)
(* Python integers have no width, and a 64-bit duration times 1000 has 74   *)
(* bits.  A number read from the file is kept as its digits to the base    *)
(* 65536, least significant first; a quotient is built from its binary     *)
(* digits, least significant first (no digits: 0).                         *)
(***************************************************************************)
LIMB == 256 * 256

\* struct.unpack(">I" / ">Q", b)[0]
LimbsOfBytes(b) ==
    [i \in 1..(Len(b) \div 2) |->
        b[Len(b) - 2 * i + 1] * 256 + b[Len(b) - 2 * i + 2]]

LimbsZero(x) == \A i \in 1..Len(x) : x[i] = 0

\* x * m for a small m, from digit k on
RECURSIVE MulFrom(_, _, _, _)
MulFrom(x, m, k, carry) ==
    IF k > Len(x) THEN (IF carry = 0 THEN <<>> ELSE <<carry>>)
    ELSE LET t == x[k] * m + carry
         IN  <<t % LIMB>> \o MulFrom(x, m, k + 1, t \div LIMB)

\* the k-th binary digit (from 1) of x, and the number of its digits
LimbBit(x, k) ==
    LET i == (k - 1) \div 16 + 1
    IN  IF k < 1 \/ i > Len(x) THEN 0 ELSE (x[i] \div (2 ^ ((k - 1) % 16))) % 2

BitLen(x) ==
    LET ks == {k \in 1..(16 * Len(x)) : LimbBit(x, k) = 1}
    IN  IF ks = {} THEN 0 ELSE CHOOSE k \in ks : \A j \in ks : j <= k

\* one step of the long division by d = [h, l] (l below 65536): the next
\* digit of the dividend is brought down onto the remainder r
DivStep(r, d, bit) ==
    LET low == 2 * r.l + bit
        r2  == [h |-> 2 * r.h + low \div LIMB, l |-> low % LIMB]
        ge  == r2.h > d.h \/ (r2.h = d.h /\ r2.l >= d.l)
    IN  [q |-> <<IF ge THEN 1 ELSE 0>>,
         r |-> IF ~ge THEN r2
               ELSE IF r2.l >= d.l THEN [h |-> r2.h - d.h, l |-> r2.l - d.l]
               ELSE [h |-> r2.h - d.h - 1, l |-> r2.l + LIMB - d.l]]

\* the digits hi..lo of a * 2^s divided by d, the remainder so far being r
RECURSIVE DivRange(_, _, _, _, _, _)
DivRange(a, s, d, hi, lo, r) ==
    IF hi < lo THEN [q |-> <<>>, r |-> r]
    ELSE IF hi = lo THEN DivStep(r, d, LimbBit(a, hi - s))
    ELSE LET mid  == (hi + lo) \div 2
             up   == DivRange(a, s, d, hi, mid + 1, r)
             down == DivRange(a, s, d, mid, lo, up.r)
         IN  IF up.r.h >= 0 /\ down.r.h >= 0     \* the upper digits first
             THEN [q |-> down.q \o up.q, r |-> down.r]
             ELSE [q |-> <<>>, r |-> r]

\* without leading zero digits
BitsNorm(q) ==
    LET ks == {k \in 1..Len(q) : q[k] = 1}
    IN  IF ks = {} THEN <<>>
        ELSE SubSeq(q, 1, CHOOSE k \in ks : \A j \in ks : j <= k)

\* (a * 2^s) // d and (a * 2^s) % d, for a two-digit d > 0
DivMod(a, s, d) ==
    LET x == DivRange(a, s, [h |-> d[2], l |-> d[1]], BitLen(a) + s, 1,
                      [h |-> 0, l |-> 0])
    IN  [q |-> BitsNorm(x.q), r |-> x.r]

\* q * 2^k, q // 2^k and q + 1 on binary digits
Shl(q, k) == IF q = <<>> THEN <<>> ELSE [i \in 1..k |-> 0] \o q
Shr(q, k) == IF k >= Len(q) THEN <<>> ELSE SubSeq(q, k + 1, Len(q))
Inc(q) ==
    LET zs == {k \in 1..Len(q) : q[k] = 0}
        z  == IF zs = {} THEN Len(q) + 1
              ELSE CHOOSE k \in zs : \A j \in zs : k <= j
    IN  [k \in 1..Max(Len(q), z) |->
            IF k < z THEN 0 ELSE IF k = z THEN 1 ELSE q[k]]

\* the value of the digits, for a number below 2^31
RECURSIVE BitsToInt(_)
BitsToInt(q) == IF q = <<>> THEN 0 ELSE q[1] + 2 * BitsToInt(Tail(q))

\* the binary digits of a float's significand
DBL_MANT_DIG == 53

\* int(a / d): the quotient of two ints is the float nearest to it (ties
\* to the even significand), and int() drops the fraction of that float.
\* The quotient is taken with s more binary places, enough for 55 digits;
\* its first 53 digits M are rounded by the digit behind them and by
\* whether anything is left behind that one.
TrueDivToInt(a, d) ==
    IF LimbsZero(a) THEN <<>>
    ELSE
    LET s  == Max(0, DBL_MANT_DIG + 3 + BitLen(d) - BitLen(a))
        dm == DivMod(a, s, d)
        t  == Len(dm.q) - DBL_MANT_DIG
        M  == Shr(dm.q, t)
        sticky == (\E k \in 1..(t - 1) : dm.q[k] = 1) \/ dm.r # [h |-> 0, l |-> 0]
        up == dm.q[t] = 1 /\ (sticky \/ M[1] = 1)
        M2 == IF up THEN Inc(M) ELSE M
    IN  IF t >= s THEN Shl(M2, t - s) ELSE Shr(M2, s - t)

\* animated_parsers.py:91  int(duration * 1000 / timescale)
DurationMs(duration, timescale) ==
    BitsToInt(TrueDivToInt(MulFrom(duration, 1000, 1, 0), timescale))

\* animated_parsers.py:64-81  timescale and duration of the box, after the
\* creation and modification times (32-bit in version 0, 64-bit in 1)
mvhd_fields(f, mvhd_pos, version) ==
    LET skip == IF version = 0 THEN 8 ELSE 16
        want == IF version = 0 THEN 8 ELSE 12
        at   == mvhd_pos + 8 + skip
    IN  IF ReadLen(f, at, want) < want THEN [ok |-> FALSE]
        ELSE [ok |-> TRUE, timescale |-> LimbsOfBytes(Bytes(f, at, 4)),
              duration |-> LimbsOfBytes(Bytes(f, at + 4, want - 4))]

\* animated_parsers.py:45-97  _parse_avif_duration_streaming
parse_avif_duration_streaming(f) ==
    LET mvhd_pos == find_mvhd_box_streaming(f)
    IN  IF mvhd_pos = -1 THEN None
        ELSE IF ReadLen(f, mvhd_pos, 8) < 8 THEN None
        ELSE
        LET version == ByteAt(f, mvhd_pos + 4)
        IN  IF version \notin {0, 1} THEN None
            ELSE
            LET fld == mvhd_fields(f, mvhd_pos, version)
            IN  IF ~fld.ok THEN None
                ELSE IF LimbsZero(fld.timescale) THEN None
                ELSE LET duration_ms ==
                             DurationMs(fld.duration, fld.timescale)
                     IN  IF duration_ms > 0 THEN JInt(duration_ms) ELSE None

\* open(file_path, "rb")
OpenFile(f) == IF f.exists THEN Ok(f) ELSE Err("FileNotFoundError")

\* a variant that lets the exception of open() through
CatchParse_reraise(r) == r

\* animated_parsers.py:40-42, 142-144  except Exception: return None
CatchParse(r) == IF r.exc # "none" THEN Ok(None) ELSE r

\* animated_parsers.py:24-42  parse_avif_duration
parse_avif_duration(f) ==
    CatchParse(IF OpenFile(f).exc # "none" THEN OpenFile(f)
               ELSE Ok(parse_avif_duration_streaming(f)))

\* animated_parsers.py:202-221  _validate_webp_headers
validate_webp_headers(f) ==
    /\ ReadLen(f, 0, 4) = 4 /\ Bytes(f, 0, 4) = RIFF_SIGNATURE
    /\ ReadLen(f, 8, 4) = 4 /\ Bytes(f, 8, 4) = WEBP_SIGNATURE

\* animated_parsers.py:224-259  _parse_anmf_chunk_duration with the file
\* object at pos: the frame duration (None when the payload read is
\* shorter than 15 bytes) and the position it leaves the file object at
parse_anmf_chunk_duration(f, pos, chunk_size) ==
    LET got  == ReadLen(f, pos, Min(chunk_size, ANMF_MIN_DATA_SIZE))
        left == pos + got + Max(chunk_size - got, 0)
    IN  IF got >= 15
        THEN [duration |-> JInt(LittleEndian(Bytes(f, pos + 12, 3) \o <<0>>)),
              pos |-> left]
        ELSE [duration |-> None, pos |-> left]

\* animated_parsers.py:158-185  the chunk loop of
\* _parse_webp_duration_streaming, with the file object at pos
\* a variant that seeks to chunk_size from the start of the file
webp_chunk_step_seek_set(f, pos) ==
    LET chunk_size == LittleEndian(Bytes(f, pos + 4, 4))
    IN  [fourcc |-> Bytes(f, pos, 4), size |-> chunk_size,
         counted |-> FALSE, duration |-> None, next |-> chunk_size]

\* one pass of the loop, the 8 bytes of a header being there at pos: the
\* chunk's fourcc and size, whether it was counted as a frame and with
\* what duration, and the position the file object is left at
webp_chunk_step(f, pos) ==
    LET chunk_fourcc == Bytes(f, pos, 4)
        chunk_size   == LittleEndian(Bytes(f, pos + 4, 4))
        body         == pos + WEBP_CHUNK_HEADER_SIZE
        fr           == parse_anmf_chunk_duration(f, body, chunk_size)
        counted      == chunk_fourcc = ANMF /\ fr.duration # None
        after        == IF chunk_fourcc = ANMF
                        THEN IF counted THEN fr.pos
                             ELSE fr.pos + chunk_size    \* line 178
                        ELSE body + chunk_size
        aligned      == IF chunk_size % 2 = 1 THEN after + 1 ELSE after
    IN  [fourcc |-> chunk_fourcc, size |-> chunk_size, counted |-> counted,
         duration |-> IF counted THEN fr.duration ELSE None,
         next |-> aligned]

RECURSIVE webp_chunk_loop(_, _, _, _)
webp_chunk_loop(f, pos, total_duration, frame_count) ==
    IF ReadLen(f, pos, WEBP_CHUNK_HEADER_SIZE) < WEBP_CHUNK_HEADER_SIZE
    THEN [total_duration |-> total_duration, frame_count |-> frame_count]
    ELSE
    LET c == webp_chunk_step(f, pos)
    IN  webp_chunk_loop(f, c.next,
                        IF c.counted THEN total_duration + c.duration.v
                                     ELSE total_duration,
                        IF c.counted THEN frame_count + 1 ELSE frame_count)

\* animated_parsers.py:147-199  _parse_webp_duration_streaming
parse_webp_duration_streaming(f) ==
    IF ~validate_webp_headers(f) THEN None
    ELSE LET r == webp_chunk_loop(f, 12, 0, 0)
         IN  IF r.frame_count > 1 /\ r.total_duration > 0
             THEN JInt(r.total_duration)
             ELSE None

\* animated_parsers.py:126-144  parse_webp_duration
parse_webp_duration(f) ==
    CatchParse(IF OpenFile(f).exc # "none" THEN OpenFile(f)
               ELSE Ok(parse_webp_duration_streaming(f)))

(***************************************************************************)
(* The files the duration parsers are tried on.                            *)
(***************************************************************************)
Zeros(n) == [k \in 1..n |-> 0]

\* n as w bytes, most / least significant byte first
RECURSIVE ToBigEndian(_, _)
ToBigEndian(n, w) ==
    IF w = 0 THEN <<>> ELSE ToBigEndian(n \div 256, w - 1) \o <<n % 256>>

RECURSIVE ToLittleEndian(_, _)
ToLittleEndian(n, w) ==
    IF w = 0 THEN <<>> ELSE <<n % 256>> \o ToLittleEndian(n \div 256, w - 1)

\* a movie header box from its tag on: tag, version, flags, creation and
\* modification times, timescale, duration (other versions laid out as 0)
MvhdBoxOf(version, timescale_bytes, duration_bytes) ==
    MVHD \o <<version, 0, 0, 0>> \o Zeros(IF version = 1 THEN 16 ELSE 8)
         \o timescale_bytes \o duration_bytes

MvhdBox(version, timescale, duration) ==
    MvhdBoxOf(version, ToBigEndian(timescale, 4),
              ToBigEndian(duration, IF version = 1 THEN 8 ELSE 4))

\* boxes whose fields use their whole width: the largest 32-bit timescale
\* and duration; a duration of 2^32 at 90000 units a second; and a
\* duration of 1334907214131645 at 2418525393 units a second
WideBoxes ==
    {MvhdBoxOf(0, <<255, 255, 255, 255>>, <<255, 255, 255, 255>>),
     MvhdBoxOf(1, <<0, 1, 95, 144>>, <<0, 0, 0, 1, 0, 0, 0, 0>>),
     MvhdBoxOf(1, <<144, 39, 196, 209>>,
               <<0, 4, 190, 23, 78, 78, 113, 189>>)}

\* bytes before the box: none, or the start of a tag ("mv") and a byte
AvifJunk == {<<>>, <<109, 118, 7>>}

\* where the tail starts: in the first read window, across its end, at
\* its end, and beyond
AvifPads == {0, 5, AVIF_SEARCH_BUFFER_SIZE - 6, AVIF_SEARCH_BUFFER_SIZE - 2,
             AVIF_SEARCH_BUFFER_SIZE, AVIF_SEARCH_BUFFER_SIZE + 1}

NoFile == [exists |-> FALSE, pad |-> 0, tail |-> <<>>]

\* AVIF inputs: a box (or none) after some junk, with or without a second
\* tag behind it, cut at any byte
AvifInputs ==
    {[kind |-> "avif", file |-> NoFile, whole |-> TRUE, hdr |-> "none",
      chunks |-> <<>>]}
    \cup
    UNION {
      LET full == j \o (IF b.present
                        THEN MvhdBox(b.version, b.timescale, b.duration)
                        ELSE <<>>) \o sfx
      IN  {[kind |-> "avif",
            file |-> [exists |-> TRUE, pad |-> pad, tail |-> SubSeq(full, 1, k)],
            whole |-> k = Len(full), hdr |-> "none", chunks |-> <<>>]
             : k \in 0..Len(full)}
      : j \in AvifJunk, pad \in AvifPads, sfx \in {<<>>, MVHD},
        b \in [present : {TRUE}, version : {0, 1, 2}, timescale : {0, 1000},
               duration : {0, 3}]
              \cup {[present |-> FALSE, version |-> 0, timescale |-> 0,
                     duration |-> 0]} }
    \cup
    UNION {
      {[kind |-> "avif",
        file |-> [exists |-> TRUE, pad |-> 0, tail |-> SubSeq(full, 1, k)],
        whole |-> k = Len(full), hdr |-> "none", chunks |-> <<>>]
         : k \in 0..Len(full)}
      : full \in WideBoxes }

\* the chunks a WebP input is built from: [cc, size, dur]: ANIM, frames
\* with a duration of 0, 100 or (with an odd payload size) 65537 ms, a
\* frame chunk too short to hold a duration, and a chunk of another kind
WebpChunks ==
    {[cc |-> ANIM, size |-> 6, dur |-> 0],
     [cc |-> ANMF, size |-> 16, dur |-> 0],
     [cc |-> ANMF, size |-> 16, dur |-> 100],
     [cc |-> ANMF, size |-> 17, dur |-> 65537],
     [cc |-> ANMF, size |-> 14, dur |-> 0],
     [cc |-> <<86, 80, 56, 32>>, size |-> 3, dur |-> 0]}

\* the bytes of a chunk: fourcc, size, payload (the duration at payload
\* bytes 12-14 where they exist), and the pad byte after an odd payload
ChunkBytes(c) ==
    c.cc \o ToLittleEndian(c.size, 4)
         \o (IF c.size >= 15
             THEN Zeros(12) \o ToLittleEndian(c.dur, 3) \o Zeros(c.size - 15)
             ELSE Zeros(c.size))
         \o (IF c.size % 2 = 1 THEN <<0>> ELSE <<>>)

RECURSIVE ChunksBytes(_)
ChunksBytes(cs) ==
    IF cs = <<>> THEN <<>> ELSE ChunkBytes(Head(cs)) \o ChunksBytes(Tail(cs))

WebpHeader(hdr) ==
    CASE hdr = "ok"     -> RIFF_SIGNATURE \o Zeros(4) \o WEBP_SIGNATURE
      [] hdr = "noriff" -> <<82, 73, 70, 88>> \o Zeros(4) \o WEBP_SIGNATURE
      [] hdr = "nowebp" -> RIFF_SIGNATURE \o Zeros(4) \o <<87, 69, 66, 77>>

ChunkSeqs(n) == UNION {[1..k -> WebpChunks] : k \in 0..n}

\* the cuts of a file: whole, or (when it is to be cut) ending at any byte
Cuts(full, cut) == IF cut THEN 0..Len(full) ELSE {Len(full)}

\* WebP inputs: a header and up to MaxChunks chunks; the files of fewer
\* chunks also cut at any byte; and files whose RIFF or WEBP signature is
\* wrong
WebpInputs ==
    {[kind |-> "webp", file |-> NoFile, whole |-> TRUE, hdr |-> "none",
      chunks |-> <<>>]}
    \cup
    UNION {
      LET full == WebpHeader(h.hdr) \o ChunksBytes(h.cs)
      IN  {[kind |-> "webp",
            file |-> [exists |-> TRUE, pad |-> 0, tail |-> SubSeq(full, 1, k)],
            whole |-> k = Len(full), hdr |-> h.hdr, chunks |-> h.cs]
             : k \in Cuts(full, Len(h.cs) < MaxChunks)}
      : h \in [hdr : {"ok"}, cs : ChunkSeqs(MaxChunks)]
              \cup [hdr : {"noriff", "nowebp"},
                    cs : {<<[cc |-> ANMF, size |-> 16, dur |-> 100],
                            [cc |-> ANMF, size |-> 16, dur |-> 100]>>}] }

NoParseInput == [kind |-> "none", file |-> NoFile, whole |-> TRUE,
                 hdr |-> "none", chunks |-> <<>>]
NotParsed    == [done |-> FALSE, exc |-> "none", val |-> None, mvhd_pos |-> -1]

\* a chunk that declares more payload than any file of the model holds
HugeSize == 63 * 256 * 256 * 256

\* the chunks the files whose chunk loop is followed are built from:
\* [cc, size, have]: the fourcc, the payload size declared, and the bytes
\* that follow the header (payload and pad byte)
ScanChunks ==
    {[cc |-> ANIM, size |-> 6, have |-> 6],
     [cc |-> ANMF, size |-> 16, have |-> 16],
     [cc |-> ANMF, size |-> 17, have |-> 18],
     [cc |-> ANMF, size |-> 14, have |-> 14],
     [cc |-> ANMF, size |-> 13, have |-> 14],
     [cc |-> <<86, 80, 56, 32>>, size |-> 3, have |-> 4],
     [cc |-> <<86, 80, 56, 32>>, size |-> 0, have |-> 0],
     [cc |-> <<86, 80, 56, 32>>, size |-> HugeSize, have |-> 2],
     [cc |-> ANMF, size |-> HugeSize, have |-> 16],
     [cc |-> ANMF, size |-> HugeSize, have |-> 3]}

RECURSIVE ScanBytes(_)
ScanBytes(cs) ==
    IF cs = <<>> THEN <<>>
    ELSE Head(cs).cc \o ToLittleEndian(Head(cs).size, 4)
                    \o Zeros(Head(cs).have) \o ScanBytes(Tail(cs))

\* the files whose loops are followed pass by pass: the AVIF inputs that
\* exist, and WebP files of up to MaxScanChunks chunks, the files of fewer
\* chunks also cut at any byte
ScanInputs ==
    {i \in AvifInputs : i.file.exists}
    \cup
    UNION {
      LET full == WebpHeader(h) \o ScanBytes(cs)
      IN  {[kind |-> "webp",
            file |-> [exists |-> TRUE, pad |-> 0, tail |-> SubSeq(full, 1, k)],
            whole |-> k = Len(full), hdr |-> h, chunks |-> cs]
             : k \in Cuts(full, Len(cs) < MaxScanChunks)}
      : h \in {"ok"},
        cs \in UNION {[1..k -> ScanChunks] : k \in 0..MaxScanChunks} }

NoChunk == [o |-> -1, s |-> 0, next |-> -1]
NoScan  == [pc |-> "idle", pos |-> 0, buflen |-> 0, position |-> 0,
            last |-> NoChunk, ret |-> -1]

ParseIdle == aFile = NoParseInput /\ aOut = NotParsed /\ scan = NoScan

(***************************************************************************)
(* Hashing with a progress callback (fileutils.hash_file as its callers    *)
(* in models.py and the tests of test_hash_progress.py use it).            *)
(*   hIn : the file's size, the chunk size, and the callback: whether one  *)
(*         is passed and at which of its calls it raises (0: never)        *)
(*   hSt : pc, the read position, bytes_processed, the number of chunks    *)
(*         fed to the digests, the callback's calls so far, and out:       *)
(*         "running", "digest" (both digests returned), or the exception   *)
(*   ing : the ingestion that hashes the file: its outcome, the catalog    *)
(*         rows it made, whether it had the file placed                   *)
(***************************************************************************)
\* a variant whose last read is as long as the others
read_chunk_len_full(size, pos, chunk_size) ==
    IF pos >= size THEN 0 ELSE chunk_size

\* fileutils.py:16  len(file_object.read(chunk_size)) with the file at pos
read_chunk_len(size, pos, chunk_size) ==
    IF pos >= size THEN 0 ELSE Min(chunk_size, size - pos)

\* the callback is called with (bytes_processed, total_bytes) and raises
\* at the call it was set to raise at
progress_callback(cb, calls, bytes_processed, total_bytes) ==
    IF ~cb.passed THEN [calls |-> calls, exc |-> "none"]
    ELSE [calls |-> Append(calls, <<bytes_processed, total_bytes>>),
          exc   |-> IF cb.raisesAt = Len(calls) + 1 THEN "ValueError" ELSE "none"]

\* one round of the loop of hash_file that read a chunk: both digests are
\* updated, then the callback is told
hash_chunk(in, st) ==
    LET n  == read_chunk_len(in.size, st.pos, in.chunk_size)
        bp == st.bytes_processed + n
        r  == progress_callback(in.cb, st.calls, bp, in.size)
    IN  [pc |-> IF r.exc = "none" THEN "loop" ELSE "end",
         pos |-> st.pos + n, bytes_processed |-> bp,
         hashed |-> st.hashed + 1, calls |-> r.calls,
         out |-> IF r.exc = "none" THEN "running" ELSE r.exc]

\* a variant that makes the catalog row before the file is hashed
ingest_outcome_row_first(h) ==
    IF h.out = "digest"
    THEN [out |-> "ok", rows |-> {"sha512"}, placed |-> TRUE]
    ELSE [out |-> h.out, rows |-> {"sha512"}, placed |-> FALSE]

\* models.py:131-204  get_or_create_with_filepath_nfo around analyze_file
\* (line 140): an exception of the hashing leaves the method at once;
\* otherwise the row is found or made (169-172) and the file placed
\* (187-191)
ingest_outcome(h) ==
    IF h.out = "digest"
    THEN [out |-> "ok", rows |-> {"sha512"}, placed |-> TRUE]
    ELSE [out |-> h.out, rows |-> {}, placed |-> FALSE]

NoHashInput == [size |-> 0, chunk_size |-> 1, cb |-> [passed |-> FALSE, raisesAt |-> 0]]
HashNotStarted == [pc |-> "idle", pos |-> 0, bytes_processed |-> 0, hashed |-> 0,
                   calls |-> <<>>, out |-> "running"]
NotIngested == [out |-> "pending", rows |-> {}, placed |-> FALSE]

\* files of up to MaxFileSize bytes read in chunks of 2 or 3 bytes, with
\* no callback, one that returns, or one that raises at one of its calls
HashInputs ==
    [size : 0..MaxFileSize, chunk_size : {2, 3},
     cb : {[passed |-> FALSE, raisesAt |-> 0]}
          \cup [passed : {TRUE}, raisesAt : 0..2]]

HashIdle == hIn = NoHashInput /\ hSt = HashNotStarted /\ ing = NotIngested

(***************************************************************************)
(* The ThumbHash encoder (fileindex/services/thumbhash.py).                *)
(*                                                                         *)
(* An image is [w, h, base, odd, oddval]: w x h pixels whose alpha is base *)
(* but for pixel odd (0: none), whose alpha is oddval.  The colours only   *)
(* enter the values of the DCT coefficients, which the model takes as      *)
(* given in their quantised form (q): the DC terms and scales that go into *)
(* the headers, and one 4-bit value per channel for its AC terms.          *)
(***************************************************************************)
THUMBHASH_MAX == 100

\* the sum over the pixels of rgba[j + 3]; avg_a is this sum / 255
AlphaSum(img) ==
    img.base * (img.w * img.h)
        + (IF img.odd \in 1..(img.w * img.h) THEN img.oddval - img.base ELSE 0)

\* thumbhash.py:41  has_alpha = avg_a < w * h
has_alpha(img) == AlphaSum(img) < 255 * img.w * img.h

\* round(n / d) of Python: to the nearest integer, a tie to the even one
PyRound(n, d) ==
    LET k == n \div d
        r == n % d
    IN  IF 2 * r < d THEN k
        ELSE IF 2 * r > d THEN k + 1
        ELSE IF k % 2 = 0 THEN k ELSE k + 1

\* thumbhash.py:43-45  the luma grid
l_limit(img) == IF has_alpha(img) THEN 5 ELSE 7
lx(img) == Max(1, PyRound(l_limit(img) * img.w, Max(img.w, img.h)))
ly(img) == Max(1, PyRound(l_limit(img) * img.h, Max(img.w, img.h)))

\* thumbhash.py:65-81  the AC terms encode_channel(channel, nx, ny) yields:
\* every (cx, cy) of its loops but (0, 0)
ac_count(nx, ny) ==
    Cardinality({c \in (0..nx) \X (0..(ny - 1)) :
                    c[1] * ny < nx * (ny - c[2])}) - 1

\* thumbhash.py:87-90, 110-126  the 4-bit values in the order they are
\* packed: luma, P, Q, then alpha when has_alpha
ac_nibbles(img, q) ==
    [k \in 1..ac_count(Max(3, lx(img)), Max(3, ly(img))) |-> q.l_ac]
    \o [k \in 1..ac_count(3, 3) |-> q.p_ac]
    \o [k \in 1..ac_count(3, 3) |-> q.q_ac]
    \o (IF has_alpha(img) THEN [k \in 1..ac_count(5, 5) |-> q.a_ac] ELSE <<>>)

\* variant: every value gets a byte of its own
pack_nibbles_unpacked(hash, us, is_odd) == hash \o us

\* thumbhash.py:110-126  two values per byte, the first in the low half
RECURSIVE pack_nibbles(_, _, _)
pack_nibbles(hash, us, is_odd) ==
    IF us = <<>> THEN hash
    ELSE IF is_odd
         THEN pack_nibbles([hash EXCEPT ![Len(hash)] = @ + Head(us) * 16],
                           Tail(us), FALSE)
         ELSE pack_nibbles(Append(hash, Head(us)), Tail(us), TRUE)

\* thumbhash.py:12-128  rgba_to_thumb_hash
rgba_to_thumb_hash(img, q) ==
    IF img.w > THUMBHASH_MAX \/ img.h > THUMBHASH_MAX THEN Err("ValueError")
    ELSE
    LET alpha        == has_alpha(img)
        is_landscape == img.w > img.h
        header24     == q.l_dc + q.p_dc * 64 + q.q_dc * 4096
                        + q.l_scale * 262144
                        + (IF alpha THEN 8388608 ELSE 0)
        header16     == (IF is_landscape THEN ly(img) ELSE lx(img))
                        + q.p_scale * 8 + q.q_scale * 512
                        + (IF is_landscape THEN 32768 ELSE 0)
        head         == <<header24 % 256, (header24 \div 256) % 256,
                          header24 \div 65536,
                          header16 % 256, header16 \div 256>>
        head_a       == IF alpha THEN Append(head, q.a_dc + q.a_scale * 16)
                                 ELSE head
    IN  Ok(pack_nibbles(head_a, ac_nibbles(img, q), FALSE))

\* widths and heights: small ones, a strip, the largest allowed, too large
ThumbSides == {1, 2, 3, 40, THUMBHASH_MAX, THUMBHASH_MAX + 1}

\* opaque images, images opaque but for one pixel, half and fully
\* transparent ones
ThumbImages ==
    [w : ThumbSides, h : ThumbSides, base : {255}, odd : {0, 1}, oddval : {254}]
    \cup [w : ThumbSides, h : ThumbSides, base : {0, 128}, odd : {0}, oddval : {0}]

\* quantised coefficients: the least and the largest value of each field
ThumbCoefficients ==
    [l_dc : {0, 63}, p_dc : {63}, q_dc : {0}, l_scale : {0, 31},
     p_scale : {63}, q_scale : {0}, a_dc : {15}, a_scale : {0, 15},
     l_ac : {1}, p_ac : {2}, q_ac : {3}, a_ac : {4}]
    \cup
    [l_dc : {63}, p_dc : {0}, q_dc : {63}, l_scale : {31},
     p_scale : {0}, q_scale : {63}, a_dc : {0}, a_scale : {15},
     l_ac : {15}, p_ac : {0, 15}, q_ac : {15}, a_ac : {0, 15}]

NoThumbInput == [img |-> [w |-> 1, h |-> 1, base |-> 255, odd |-> 0, oddval |-> 0],
                 q |-> [l_dc |-> 0, p_dc |-> 0, q_dc |-> 0, l_scale |-> 0,
                        p_scale |-> 0, q_scale |-> 0, a_dc |-> 0, a_scale |-> 0,
                        l_ac |-> 0, p_ac |-> 0, q_ac |-> 0, a_ac |-> 0]]
NotEncoded == [done |-> FALSE, exc |-> "none", hash |-> <<>>]

ThumbIdle == tIn = NoThumbInput /\ tOut = NotEncoded

(***************************************************************************)
(* The import service (fileindex/services/file_import.py) and the          *)
(* validation it calls (fileindex/services/file_validation.py).            *)
(*                                                                         *)
(* What a path names is [empty, stat, present, is_dir, st_size, suffix,    *)
(* traversal, index, unlink]:                                              *)
(*   empty     : the path is the empty string                              *)
(*   stat      : "ok", or the errno os.stat fails with other than the      *)
(*               "no such file" ones ("EACCES": the directory of the path  *)
(*               cannot be searched; "ENAMETOOLONG")                       *)
(*   present   : the path names something                                  *)
(*   is_dir    : and that is a directory                                   *)
(*   st_size   : its size in bytes                                         *)
(*   suffix    : the suffix of the name                                    *)
(*   traversal : the path contains one of DISALLOWED_PATTERNS              *)
(*   index     : what IndexedFile.objects.get_or_create_from_file does     *)
(*               with it: "created", "existing", or "raises"               *)
(*   unlink    : what os.unlink does with it: "ok" or "OSError"            *)
(* iIn : the call: batch_import_files or import_directory, its options,    *)
(*       and the file system it starts on                                  *)
(* iSt : its position: pc, the work list and the index of the next file,   *)
(*       the file system, the statistics, the progress callback's calls,   *)
(*       and log, the import_file calls made so far                        *)
(***************************************************************************)
ALLOWED_EXTENSIONS ==
    {".jpg", ".jpeg", ".png", ".gif", ".webp", ".avif", ".mp4", ".webm", ".pdf"}
ImportSizeLimit == 100 * 1024 * 1024

\* str.lower() on the suffixes of the model
Lower(s) == CASE s = ".PNG" -> ".png"
              [] s = ".JPG" -> ".jpg"
              [] OTHER -> s

should_import_filename(f) ==
    IF f.empty THEN FALSE
    ELSE IF f.traversal THEN FALSE
    ELSE Lower(f.suffix) \in ALLOWED_EXTENSIONS

\* Path.exists(), Path.is_file() and Path.stat() all call os.stat; exists()
\* and is_file() answer False on ENOENT, ENOTDIR, EBADF and ELOOP and
\* let every other OSError through.
should_import(f) ==
    IF f.empty THEN Ok(FALSE)
    ELSE IF f.stat # "ok" THEN Err("OSError")
    ELSE IF ~f.present THEN Ok(FALSE)
    ELSE IF f.is_dir THEN Ok(FALSE)
    ELSE IF f.st_size > ImportSizeLimit THEN Ok(FALSE)
    ELSE Ok(should_import_filename(f))

\* os.path.exists answers False on any OSError
os_path_exists(f) == ~f.empty /\ f.stat = "ok" /\ f.present

\* Ok(created), or the exception of the ingestion (a directory cannot be
\* opened for hashing)
get_or_create_from_file(f) ==
    IF f.is_dir \/ f.index = "raises" THEN Err("Exception")
    ELSE Ok(f.index = "created")

ImportResult(x, i, c, e, F) ==
    [exc |-> x, indexed_file |-> i, created |-> c, error |-> e, fs |-> F]

\* import_file(filepath, delete_after=..., validate=...) on file system F:
\* the exception it raises ("none": it returns), the tuple it returns, and
\* the file system it leaves
import_file(F, p, delete_after, validate) ==
    LET f == F[p]
        v == IF validate THEN should_import(f) ELSE Ok(TRUE)
        g == get_or_create_from_file(f)
        unlinked == delete_after /\ f.unlink = "ok" /\ ~f.is_dir
    IN  IF v.exc # "none"
          THEN ImportResult(v.exc, "None", FALSE, "None", F)
        ELSE IF ~v.val
          THEN ImportResult("none", "None", FALSE, "VALIDATION_FAILED", F)
        ELSE IF ~os_path_exists(f)
          THEN ImportResult("none", "None", FALSE, "FILE_NOT_EXISTS", F)
        ELSE IF g.exc # "none"
          THEN ImportResult("none", "None", FALSE, "IMPORT_FAILED", F)
        ELSE ImportResult("none", "row", g.val, "None",
                 [F EXCEPT ![p].present = IF unlinked THEN FALSE ELSE @,
                           ![p].index   = "existing"])

\* the paths of the model; in a directory tree, "flat" has both in the
\* directory itself, "nested" has path 2 in it and path 1 in a subdirectory
ImportPaths == {1, 2}
InRoot(layout) == IF layout = "flat" THEN ImportPaths ELSE {2}
InSub(layout)  == IF layout = "flat" THEN {} ELSE {1}

\* files.sort()
RECURSIVE SortedSeq(_)
SortedSeq(S) ==
    IF S = {} THEN <<>>
    ELSE LET m == CHOOSE x \in S : \A y \in S : x <= y
         IN  <<m>> \o SortedSeq(S \ {m})

\* what os.walk puts in `files`: the names in a directory that are no
\* directories
Listed(F, S) == {p \in S : ~F[p].empty /\ F[p].present /\ ~F[p].is_dir}

\* the files import_directory comes to, in its order
walk(F, dir, layout, recursive) ==
    IF dir # "dir" THEN <<>>
    ELSE SortedSeq(Listed(F, InRoot(layout)))
         \o (IF recursive THEN SortedSeq(Listed(F, InSub(layout))) ELSE <<>>)

NoStats == [total_files |-> 0, imported |-> 0, created |-> 0, skipped |-> 0,
            errors |-> {}]

\* the statistics after one import_file returned r for path p
update_stats(stats, p, r) ==
    IF r.error = "VALIDATION_FAILED"
      THEN [stats EXCEPT !.skipped = @ + 1]
    ELSE IF r.error # "None"
      THEN [stats EXCEPT !.errors = @ \cup {p}]
    ELSE [stats EXCEPT !.imported = @ + 1,
                       !.created = IF r.created THEN @ + 1 ELSE @]

Attempt(F, p, r) ==
    [path |-> p, before |-> F[p], exc |-> r.exc,
     indexed_file |-> r.indexed_file, created |-> r.created,
     error |-> r.error, deleted |-> F[p].present /\ ~r.fs[p].present]

GoodFile ==
    [empty |-> FALSE, stat |-> "ok", present |-> TRUE, is_dir |-> FALSE,
     st_size |-> 1, suffix |-> ".jpg", traversal |-> FALSE,
     index |-> "created", unlink |-> "ok"]

ImportFiles ==
    { GoodFile,
      [GoodFile EXCEPT !.index = "existing", !.suffix = ".PNG",
                       !.st_size = ImportSizeLimit],
      [GoodFile EXCEPT !.suffix = ".txt"],
      [GoodFile EXCEPT !.st_size = ImportSizeLimit + 1],
      [GoodFile EXCEPT !.traversal = TRUE],
      [GoodFile EXCEPT !.present = FALSE],
      [GoodFile EXCEPT !.empty = TRUE, !.present = FALSE, !.suffix = ""],
      [GoodFile EXCEPT !.is_dir = TRUE, !.suffix = ""],
      [GoodFile EXCEPT !.stat = "EACCES"],
      [GoodFile EXCEPT !.index = "raises"],
      [GoodFile EXCEPT !.unlink = "OSError"] }

RECURSIVE PathSeqs(_)
PathSeqs(n) ==
    IF n = 0 THEN {<<>>}
    ELSE LET S == PathSeqs(n - 1)
         IN  S \cup {Append(s, p) : s \in {t \in S : Len(t) = n - 1},
                                    p \in ImportPaths}

BatchInputs ==
    [fn : {"batch_import_files"}, fs : [ImportPaths -> ImportFiles],
     file_paths : PathSeqs(MaxBatch), delete_after : BOOLEAN,
     validate : BOOLEAN, stop_on_error : BOOLEAN]

DirectoryInputs ==
    [fn : {"import_directory"}, fs : [ImportPaths -> ImportFiles],
     dir : {"dir", "file", "missing"}, layout : {"flat", "nested"},
     recursive : BOOLEAN, delete_after : BOOLEAN, validate : BOOLEAN]

NoImportInput == [fn |-> "none"]
NotImporting  == [pc |-> "idle"]
ImportIdle    == iIn = NoImportInput /\ iSt = NotImporting

\* the work list of the call
ImportWork(in) ==
    IF in.fn = "batch_import_files" THEN in.file_paths
    ELSE walk(in.fs, in.dir, in.layout, in.recursive)

ImportStart(in) ==
    [pc |-> "loop", files |-> ImportWork(in), pos |-> 1, fs |-> in.fs,
     stats |-> [NoStats EXCEPT !.total_files =
                   IF in.fn = "batch_import_files" THEN Len(in.file_paths)
                   ELSE 0],
     cb |-> <<>>, log |-> <<>>, exc |-> "none"]

(***************************************************************************)
(* The watch handler (fileindex/services/watch.py, WatchEventHandler).     *)
(*                                                                         *)
(* processed_files is [named, others]: which of the paths of WatchPaths it *)
(* holds, and how many other paths.  The path of an event is one of        *)
(* WatchPaths, "seen" (one of the other paths the set holds) or "new" (a   *)
(* path that is none of these).                                            *)
(* wLast is the last event handled: the event, processed_files before it,  *)
(* and whether and with what the callback was called.                      *)
(***************************************************************************)
ProcessedFilesLimit == 1000
WatchPaths  == {"a", "b"}
EventPaths  == WatchPaths \cup {"seen", "new"}
EmptyCache  == [named |-> {}, others |-> 0]

CacheLen(c)   == Cardinality(c.named) + c.others
InCache(c, p) == CASE p = "seen" -> c.others > 0
                   [] p = "new"  -> FALSE
                   [] OTHER      -> p \in c.named
CacheAdd(c, p) == IF p \in WatchPaths THEN [c EXCEPT !.named = @ \cup {p}]
                  ELSE [c EXCEPT !.others = @ + 1]

should_process_file_at_limit(c, filepath) ==
    IF InCache(c, filepath) THEN [ret |-> FALSE, cache |-> c]
    ELSE [ret |-> TRUE,
          cache |-> CacheAdd(IF CacheLen(c) >= ProcessedFilesLimit
                             THEN EmptyCache ELSE c, filepath)]

\* _should_process_file: its answer, and processed_files after it
should_process_file(c, filepath) ==
    IF InCache(c, filepath) THEN [ret |-> FALSE, cache |-> c]
    ELSE [ret |-> TRUE,
          cache |-> CacheAdd(IF CacheLen(c) > ProcessedFilesLimit
                             THEN EmptyCache ELSE c, filepath)]

\* one handler on event e, which tests and passes on path p of the event
handle(c, e, p) ==
    IF ~e.is_directory
      THEN LET r == should_process_file(c, p)
           IN  [cache |-> r.cache, called |-> r.ret,
                arg |-> IF r.ret THEN p ELSE "-"]
    ELSE [cache |-> c, called |-> FALSE, arg |-> "-"]

on_close(c, event)   == handle(c, event, event.src_path)
on_created(c, event) == handle(c, event, event.src_path)
on_moved(c, event)   == handle(c, event, event.dest_path)

\* the events watchdog delivers: only a move has a dest_path
WatchEvents(type) ==
    [type : {type}, is_directory : BOOLEAN,
     src_path : IF type = "on_moved" THEN {"a", "new"} ELSE EventPaths,
     dest_path : IF type = "on_moved" THEN EventPaths ELSE {"-"}]

NoEvent   == [type |-> "none"]
WatchIdle == wCache = EmptyCache /\ wLast = NoEvent

(***************************************************************************)
(* The catalog and the store together: IndexedFile rows by sha512, the     *)
(* FilePath rows, and the files of the file system above.  One content is  *)
(* followed: cat.digest stands for its sha512 (the bytes themselves, as    *)
(* the hash is injective on the few contents here) and Dst is              *)
(* MEDIA_ROOT/IndexedFile.path of that digest.  cat.signals counts the     *)
(* indexedfile_added signals sent; cat.orphan tells that some call made   *)
(* the row and then failed to place the file.                              *)
(***************************************************************************)
NoCatalog == [digest |-> <<>>, rows |-> {}, filepaths |-> {}, signals |-> 0,
              orphan |-> FALSE, n |-> 0]

NoCall == [kind |-> "none"]

CatIdle == cat = NoCatalog /\ call = NoCall

\* variant: the signal goes out for every new row, placed and saved or not
signal_sent_on_create(created, placed, saved) == created

\* models.py:201-202  `if created: indexedfile_added.send(...)` is reached
\* only when smartadd (187) and indexedfile.save() (198) did not raise
signal_sent(created, placed, saved) == created /\ placed = "ok" /\ saved = "ok"

\* models.py:169-204  from the lookup by sha512 on; r is what smartadd
\* (187-191) does
ingest_after_lookup(C, filepath, save, sha512, r) ==
    LET created == sha512 \notin C.rows
        placed  == r.L.out
        saved   == IF placed = "ok" THEN save ELSE "not reached"
        sent    == signal_sent(created, placed, saved)
    IN  [exc |-> IF placed # "ok" THEN placed
                 ELSE IF saved # "ok" THEN "DatabaseError" ELSE "none",
         created |-> created,
         signal |-> sent,
         F |-> r.F,
         C |-> [C EXCEPT !.rows = @ \cup {sha512},
                         !.filepaths = @ \cup {filepath},
                         !.signals = IF sent THEN @ + 1 ELSE @,
                         !.orphan = @ \/ (created /\ placed # "ok")]]

\* models.py:208-217 and 131-204  get_or_create_from_file(filepath,
\* only_hard_link) on file system F and catalog C; `save` is what
\* indexedfile.save() does ("ok", or it raises a database error)
get_or_create_with_filepath_nfo(F, C, filepath, ohl, save) ==
    IF ~Exists(F, filepath)
    THEN [exc |-> "FileNotFoundError", created |-> FALSE, signal |-> FALSE,
          F |-> F, C |-> C]
    ELSE ingest_after_lookup(C, filepath, save, DataOf(F, filepath),
                             smartadd(F, filepath, ohl))

\* file_validation.should_import on the paths of the store model: the
\* canonical name has no extension (models.py:344), the other names do
should_import_stored(p) == p # Dst

\* file_import.py:43-72  import_file around the ingestion g of line 55
import_file_around(F, C, filepath, delete_after, validate, g) ==
    LET none == [exc |-> "not called", created |-> FALSE, signal |-> FALSE,
                 F |-> F, C |-> C]
    IN  IF validate /\ ~should_import_stored(filepath)
          THEN [error |-> "VALIDATION_FAILED", g |-> none, F |-> F]
        ELSE IF ~Exists(F, filepath)
          THEN [error |-> "FILE_NOT_EXISTS", g |-> none, F |-> F]
        ELSE IF g.exc # "none"
          THEN [error |-> "IMPORT_FAILED", g |-> g, F |-> g.F]
        ELSE [error |-> "None", g |-> g,
              F |-> IF delete_after /\ Exists(g.F, filepath)
                    THEN Unlink(g.F, filepath) ELSE g.F]

\* file_import.py:43-72  import_file(filepath, only_hard_link, delete_after,
\* validate) over the file system and the catalog; os.unlink(filepath)
\* (line 62) finds the file that was just ingested
import_file_stored(F, C, filepath, ohl, delete_after, validate, save) ==
    import_file_around(F, C, filepath, delete_after, validate,
                       get_or_create_with_filepath_nfo(F, C, filepath, ohl, save))

SvcIdle   == ImportIdle /\ WatchIdle /\ CatIdle

ExtIdle   == ParseIdle /\ HashIdle /\ ThumbIdle /\ SvcIdle

(***************************************************************************)
(* Initial file systems: both sources exist, each on its own inode; dst    *)
(* is absent (with any number of its parent directories present) or is a  *)
(* file of its own, possibly with a second hard link next to it.           *)
(***************************************************************************)
DirsUpTo(n, dev) == [k \in 0..DirDepth |-> IF k <= n THEN dev ELSE 0]

InitFS ==
    \E sd \in [Sources -> Devs], dd \in Devs, n \in 0..DirDepth,
       f1 \in Contents \X Mtimes, f2 \in Contents \X Mtimes,
       fd \in Contents \X Mtimes, hasDst \in BOOLEAN, hasOther \in BOOLEAN :
        /\ sd["s1"] = 1 /\ f1[2] = 1      \* up to renaming devices and times
        /\ hasDst => n = DirDepth
        /\ hasOther => hasDst
        /\ ~hasDst => fd = <<<<0>>, 1>>
        /\ sdev = sd
        /\ dirs = DirsUpTo(n, dd)
        /\ ent = [p \in Paths |->
                    CASE p = "s1" -> 1
                      [] p = "s2" -> 2
                      [] p = "d"  -> IF hasDst THEN 3 ELSE 0
                      [] p = "o"  -> IF hasOther THEN 3 ELSE 0]
        /\ ino = [i \in Inos |->
                    CASE i = 1 -> [dev |-> sd["s1"], data |-> f1[1], mtime |-> f1[2]]
                      [] i = 2 -> [dev |-> sd["s2"], data |-> f2[1], mtime |-> f2[2]]
                      [] i = 3 -> IF hasDst
                                  THEN [dev |-> dd, data |-> fd[1], mtime |-> fd[2]]
                                  ELSE NoInode
                      [] OTHER -> NoInode]

AllIdle == [p \in Procs |-> Idle]

(***************************************************************************)
(* Spec: smartadd calls made one after another.                            *)
(***************************************************************************)
Init ==
    /\ InitFS
    /\ proc = AllIdle
    /\ hist = <<>>
    /\ mIn = NoInput
    /\ mOut = Pending
    /\ pIn = NoPathIn
    /\ pOut = NoPathOut
    /\ ExtIdle

\* one whole call smartadd(src, dst, only_hard_link=ohl)
SmartAdd(src, ohl) ==
    /\ Len(hist) < MaxCalls
    /\ LET r == smartadd(FS, src, ohl)
       IN  /\ ent' = r.F.ent
           /\ ino' = r.F.ino
           /\ dirs' = r.F.dirs
           /\ hist' = Append(hist, [src |-> src, ohl |-> ohl, out |-> r.L.out,
                                     mods |-> r.L.mods, pre |-> FS])
    /\ UNCHANGED <<sdev, proc, mIn, mOut, pIn, pOut, extVars>>

Next == \E src \in Sources, ohl \in BOOLEAN : SmartAdd(src, ohl)

vars == <<ent, ino, dirs, sdev, proc, hist, mIn, mOut, pIn, pOut, extVars>>

Spec == Init /\ [][Next]_vars

(***************************************************************************)
(* SpecConc: two callers inside smartadd at once, for identical content    *)
(* toward an absent dst on the sources' device; every file-system call is  *)
(* one step and the steps of the two callers interleave freely.            *)
(***************************************************************************)
InitConc ==
    /\ \E dev \in Devs, n \in 0..DirDepth, c \in Contents,
          m1 \in Mtimes, m2 \in Mtimes :
        /\ sdev = [s \in Sources |-> dev]
        /\ dirs = DirsUpTo(n, dev)
        /\ ent = [p \in Paths |-> CASE p = "s1" -> 1 [] p = "s2" -> 2 [] OTHER -> 0]
        /\ ino = [i \in Inos |->
                    CASE i = 1 -> [dev |-> dev, data |-> c, mtime |-> m1]
                      [] i = 2 -> [dev |-> dev, data |-> c, mtime |-> m2]
                      [] OTHER -> NoInode]
    /\ proc = AllIdle
    /\ hist = <<>>
    /\ mIn = NoInput
    /\ mOut = Pending
    /\ pIn = NoPathIn
    /\ pOut = NoPathOut
    /\ ExtIdle

\* caller p enters smartadd(src, dst, ohl)
Call(p, src, ohl) ==
    /\ proc[p].pc = "idle"
    /\ proc' = [proc EXCEPT ![p] = Begin(src, ohl)]
    /\ UNCHANGED <<ent, ino, dirs, sdev, hist, mIn, mOut, pIn, pOut, extVars>>

\* caller p makes its next file-system call
StepProc(p) ==
    /\ proc[p].pc \notin {"idle", "end"}
    /\ LET r == Step(FS, proc[p])
       IN  /\ ent' = r.F.ent
           /\ ino' = r.F.ino
           /\ dirs' = r.F.dirs
           /\ proc' = [proc EXCEPT ![p] = r.L]
    /\ UNCHANGED <<sdev, hist, mIn, mOut, pIn, pOut, extVars>>

NextConc ==
    \E p \in Procs :
        \/ \E src \in Sources, ohl \in BOOLEAN : Call(p, src, ohl)
        \/ StepProc(p)

SpecConc == InitConc /\ [][NextConc]_vars

(***************************************************************************)
(* SpecFault: one smartadd call, one file-system call per step, in which   *)
(* a call that writes (unlink, hardlink_to, mkdir, copy2) may fail with an *)
(* OSError of the operating system (EPERM, EMLINK, ENOSPC, EIO) and raise  *)
(* out of smartadd; nothing in fileutils.py catches it.                    *)
(***************************************************************************)
WritingSteps == {"sl_unlink", "sl_relink", "sl_mkdir", "sl_link", "sc_mkdir", "sc_copy"}

FaultCaller == CHOOSE p \in Procs : \A q \in Procs : p <= q

\* the caller enters smartadd(src, dst, ohl); hist keeps the file system
\* the call started from
FaultCall(src, ohl) ==
    /\ proc[FaultCaller].pc = "idle"
    /\ proc' = [proc EXCEPT ![FaultCaller] = Begin(src, ohl)]
    /\ hist' = <<[src |-> src, ohl |-> ohl, out |-> "running", mods |-> 0,
                  pre |-> FS]>>
    /\ UNCHANGED <<ent, ino, dirs, sdev, mIn, mOut, pIn, pOut, extVars>>

\* the caller's next file-system call succeeds or fails as fileutils.py has it
FaultStep == StepProc(FaultCaller)

\* the caller's next writing call fails in the operating system
FaultRaise ==
    /\ proc[FaultCaller].pc \in WritingSteps
    /\ proc' = [proc EXCEPT ![FaultCaller] = Raise(FS, @, "OSError").L]
    /\ UNCHANGED <<ent, ino, dirs, sdev, hist, mIn, mOut, pIn, pOut, extVars>>

NextFault ==
    \/ \E src \in Sources, ohl \in BOOLEAN : FaultCall(src, ohl)
    \/ FaultStep
    \/ FaultRaise

SpecFault == Init /\ [][NextFault]_vars

(***************************************************************************)
(* SpecMeta: the classifier applied to one file.                           *)
(***************************************************************************)
EmptyFS ==
    /\ ent = [p \in Paths |-> 0]
    /\ ino = [i \in Inos |-> NoInode]
    /\ dirs = DirsUpTo(0, 1)
    /\ sdev = [s \in Sources |-> 1]
    /\ proc = AllIdle
    /\ hist = <<>>

InitMeta ==
    /\ EmptyFS
    /\ mIn \in MetaInputs
    /\ mOut = Pending
    /\ pIn = NoPathIn
    /\ pOut = NoPathOut
    /\ ExtIdle

\* metadata, is_corrupt = extract_metadata(file_path, mime_type)
Classify ==
    /\ ~mOut.done
    /\ mOut' = [extract_metadata(mIn) EXCEPT !.done = TRUE]
    /\ UNCHANGED <<ent, ino, dirs, sdev, proc, hist, mIn, pIn, pOut, extVars>>

NextMeta == Classify

SpecMeta == InitMeta /\ [][NextMeta]_vars

(***************************************************************************)
(* SpecPath: two files are hashed and ingested; pOut[k] is where           *)
(* get_or_create_with_filepath_nfo has smartadd place file k.              *)
(***************************************************************************)
InitPath ==
    /\ EmptyFS
    /\ mIn = NoInput
    /\ mOut = Pending
    /\ pIn \in [b32 : B32Encodings \X B32Encodings, root : MediaRoots]
    /\ pOut = NoPathOut
    /\ ExtIdle

\* models.py:140, 169-191  hash the file, find or make its row by sha512,
\* and place the file at media_root / row.path
IngestPath(k) ==
    /\ k \notin DOMAIN pOut
    /\ LET sha512 == hash_file_sha512(pIn.b32[k])
       IN  pOut' = Put(pOut, k, [sha512 |-> sha512,
                                 path |-> IndexedFile_path(sha512),
                                 dest |-> dest_path(pIn.root, sha512)])
    /\ UNCHANGED <<ent, ino, dirs, sdev, proc, hist, mIn, mOut, pIn, extVars>>

NextPath == \E k \in 1..2 : IngestPath(k)

SpecPath == InitPath /\ [][NextPath]_vars
(***************************************************************************)
(* SpecParse: a duration parser applied to one file.                       *)
(***************************************************************************)
CoreIdle ==
    /\ EmptyFS
    /\ mIn = NoInput
    /\ mOut = Pending
    /\ pIn = NoPathIn
    /\ pOut = NoPathOut

coreVars == <<ent, ino, dirs, sdev, proc, hist, mIn, mOut, pIn, pOut>>

InitParse ==
    /\ CoreIdle /\ HashIdle /\ ThumbIdle /\ SvcIdle
    /\ aFile \in AvifInputs \cup WebpInputs
    /\ aOut = NotParsed
    /\ scan = NoScan

\* duration_ms = parse_avif_duration(file_path)
ParseAvif ==
    /\ aFile.kind = "avif" /\ ~aOut.done
    /\ LET r == parse_avif_duration(aFile.file)
       IN  aOut' = [done |-> TRUE, exc |-> r.exc, val |-> r.val,
                    mvhd_pos |-> IF aFile.file.exists
                                 THEN find_mvhd_box_streaming(aFile.file)
                                 ELSE -1]
    /\ UNCHANGED <<coreVars, aFile, scan, hashVars, thumbVars, svcVars>>

\* duration_ms = parse_webp_duration(file_path)
ParseWebp ==
    /\ aFile.kind = "webp" /\ ~aOut.done
    /\ LET r == parse_webp_duration(aFile.file)
       IN  aOut' = [done |-> TRUE, exc |-> r.exc, val |-> r.val, mvhd_pos |-> -1]
    /\ UNCHANGED <<coreVars, aFile, scan, hashVars, thumbVars, svcVars>>

NextParse == ParseAvif \/ ParseWebp

SpecParse == InitParse /\ [][NextParse]_vars

(***************************************************************************)
(* SpecScan: the loops of the two parsers, pass by pass.  scan is the      *)
(* position: pc, the position of the file object, the bytes kept in        *)
(* buffer and `position` of the mvhd search, the chunk of the last pass of *)
(* the chunk loop (the offset o of its header, its size s, the position    *)
(* next the pass left the file object at), and what the search returned.   *)
(***************************************************************************)
InitScan ==
    /\ CoreIdle /\ HashIdle /\ ThumbIdle /\ SvcIdle
    /\ aFile \in ScanInputs
    /\ aOut = NotParsed
    /\ scan = [NoScan EXCEPT
                 !.pc = IF aFile.kind = "webp" THEN "headers" ELSE "search"]

\* if not _validate_webp_headers(f, file_path): return None
ScanHeaders ==
    /\ scan.pc = "headers"
    /\ scan' = IF validate_webp_headers(aFile.file)
               THEN [scan EXCEPT !.pc = "chunks", !.pos = 12]
               ELSE [scan EXCEPT !.pc = "done"]
    /\ UNCHANGED <<coreVars, aFile, aOut, hashVars, thumbVars, svcVars>>

\* one pass of `while True` that read a whole chunk header
ScanChunk ==
    /\ scan.pc = "chunks"
    /\ ReadLen(aFile.file, scan.pos, WEBP_CHUNK_HEADER_SIZE)
          = WEBP_CHUNK_HEADER_SIZE
    /\ LET c == webp_chunk_step(aFile.file, scan.pos)
       IN  scan' = [scan EXCEPT
                      !.pos = c.next,
                      !.last = [o |-> scan.pos, s |-> c.size, next |-> c.next]]
    /\ UNCHANGED <<coreVars, aFile, aOut, hashVars, thumbVars, svcVars>>

\* if len(chunk_header) < WEBP_CHUNK_HEADER_SIZE: break
ScanChunksEnd ==
    /\ scan.pc = "chunks"
    /\ ReadLen(aFile.file, scan.pos, WEBP_CHUNK_HEADER_SIZE)
          < WEBP_CHUNK_HEADER_SIZE
    /\ scan' = [scan EXCEPT !.pc = "done"]
    /\ UNCHANGED <<coreVars, aFile, aOut, hashVars, thumbVars, svcVars>>

\* one pass of the search loop that read something
ScanSearch ==
    /\ scan.pc = "search"
    /\ LET r == find_mvhd_read(aFile.file, scan.pos, scan.buflen,
                               scan.position)
       IN  /\ r.chunklen > 0
           /\ scan' = IF r.found
                      THEN [scan EXCEPT !.pc = "done", !.ret = r.result]
                      ELSE [scan EXCEPT !.pos = r.fpos, !.buflen = r.buflen,
                                        !.position = r.position]
    /\ UNCHANGED <<coreVars, aFile, aOut, hashVars, thumbVars, svcVars>>

\* if not chunk: break
ScanSearchEnd ==
    /\ scan.pc = "search"
    /\ ReadLen(aFile.file, scan.pos, AVIF_SEARCH_BUFFER_SIZE) = 0
    /\ scan' = [scan EXCEPT !.pc = "done"]
    /\ UNCHANGED <<coreVars, aFile, aOut, hashVars, thumbVars, svcVars>>

NextScan ==
    ScanHeaders \/ ScanChunk \/ ScanChunksEnd \/ ScanSearch \/ ScanSearchEnd

\* a parser that was called runs on: its passes are weakly fair
SpecScan == InitScan /\ [][NextScan]_vars /\ WF_vars(NextScan)

(***************************************************************************)
(* SpecHash: one file is hashed, chunk by chunk, inside an ingestion.      *)
(***************************************************************************)
InitHash ==
    /\ CoreIdle /\ ParseIdle /\ ThumbIdle /\ SvcIdle
    /\ hIn \in HashInputs
    /\ hSt = HashNotStarted
    /\ ing = NotIngested

\* get_or_create_with_filepath_nfo calls analyze_file, which calls
\* hash_file(filepath, progress_callback): the file is opened
HashCall ==
    /\ hSt.pc = "idle"
    /\ hSt' = [hSt EXCEPT !.pc = "loop"]
    /\ UNCHANGED <<coreVars, parseVars, thumbVars, svcVars, hIn, ing>>

\* fileutils.py:35-37  a chunk is read and hashed
HashChunk ==
    /\ hSt.pc = "loop"
    /\ read_chunk_len(hIn.size, hSt.pos, hIn.chunk_size) > 0
    /\ hSt' = hash_chunk(hIn, hSt)
    /\ UNCHANGED <<coreVars, parseVars, thumbVars, svcVars, hIn, ing>>

\* fileutils.py:17-18, 38-41  the read returns nothing: the digests are
\* returned
HashReturn ==
    /\ hSt.pc = "loop"
    /\ read_chunk_len(hIn.size, hSt.pos, hIn.chunk_size) = 0
    /\ hSt' = [hSt EXCEPT !.pc = "end", !.out = "digest"]
    /\ UNCHANGED <<coreVars, parseVars, thumbVars, svcVars, hIn, ing>>

\* the rest of get_or_create_with_filepath_nfo once hash_file has ended
Ingest ==
    /\ hSt.pc = "end" /\ ing.out = "pending"
    /\ ing' = ingest_outcome(hSt)
    /\ UNCHANGED <<coreVars, parseVars, thumbVars, svcVars, hIn, hSt>>

NextHash == HashCall \/ HashChunk \/ HashReturn \/ Ingest

SpecHash == InitHash /\ [][NextHash]_vars

(***************************************************************************)
(* SpecThumb: the encoder applied to one image.                            *)
(***************************************************************************)
InitThumb ==
    /\ CoreIdle /\ ParseIdle /\ HashIdle /\ SvcIdle
    /\ tIn \in [img : ThumbImages, q : ThumbCoefficients]
    /\ tOut = NotEncoded

\* thumb_hash = rgba_to_thumb_hash(img.width, img.height, rgba)
Encode ==
    /\ ~tOut.done
    /\ LET r == rgba_to_thumb_hash(tIn.img, tIn.q)
       IN  tOut' = [done |-> TRUE, exc |-> r.exc,
                    hash |-> IF r.exc = "none" THEN r.val ELSE <<>>]
    /\ UNCHANGED <<coreVars, parseVars, hashVars, svcVars, tIn>>

NextThumb == Encode

SpecThumb == InitThumb /\ [][NextThumb]_vars

\* batch_import_files(file_paths, ...) or import_directory(dirpath, ...),
\* entered
InitImport ==
    /\ CoreIdle /\ ParseIdle /\ HashIdle /\ ThumbIdle /\ WatchIdle /\ CatIdle
    /\ iIn \in BatchInputs \cup DirectoryInputs
    /\ iSt = ImportStart(iIn)

\* one iteration of `for filepath in file_paths`
BatchImportStep ==
    /\ iIn.fn = "batch_import_files"
    /\ iSt.pc = "loop" /\ iSt.pos <= Len(iSt.files)
    /\ LET p == iSt.files[iSt.pos]
           r == import_file(iSt.fs, p, iIn.delete_after, iIn.validate)
           a == Attempt(iSt.fs, p, r)
           stop == iIn.stop_on_error
                   /\ r.error \notin {"None", "VALIDATION_FAILED"}
       IN  iSt' = IF r.exc # "none"
                    THEN [iSt EXCEPT !.pc = "raised", !.exc = r.exc,
                                     !.log = Append(@, a)]
                  ELSE [iSt EXCEPT
                          !.pc = IF stop THEN "done" ELSE "loop",
                          !.pos = @ + 1, !.fs = r.fs,
                          !.stats = update_stats(@, p, r),
                          !.cb = IF stop THEN @
                                 ELSE Append(@, <<p, r.error = "None">>),
                          !.log = Append(@, a)]
    /\ UNCHANGED <<coreVars, parseVars, hashVars, thumbVars, watchVars, catVars, iIn>>

\* one iteration of `for filename in files` under os.walk
DirectoryImportStep ==
    /\ iIn.fn = "import_directory"
    /\ iSt.pc = "loop" /\ iSt.pos <= Len(iSt.files)
    /\ LET p == iSt.files[iSt.pos]
           r == import_file(iSt.fs, p, iIn.delete_after, iIn.validate)
           a == Attempt(iSt.fs, p, r)
           counted == [iSt.stats EXCEPT !.total_files = @ + 1]
       IN  iSt' = IF r.exc # "none"
                    THEN [iSt EXCEPT !.pc = "raised", !.exc = r.exc,
                                     !.stats = counted,
                                     !.log = Append(@, a)]
                  ELSE [iSt EXCEPT
                          !.pos = @ + 1, !.fs = r.fs,
                          !.stats = update_stats(counted, p, r),
                          !.cb = Append(@, <<p, r.error = "None">>),
                          !.log = Append(@, a)]
    /\ UNCHANGED <<coreVars, parseVars, hashVars, thumbVars, watchVars, catVars, iIn>>

\* return stats
ImportReturn ==
    /\ iSt.pc = "loop" /\ iSt.pos > Len(iSt.files)
    /\ iSt' = [iSt EXCEPT !.pc = "done"]
    /\ UNCHANGED <<coreVars, parseVars, hashVars, thumbVars, watchVars, catVars, iIn>>

NextImport == BatchImportStep \/ DirectoryImportStep \/ ImportReturn

SpecImport == InitImport /\ [][NextImport]_vars

\* handler = WatchEventHandler(callback)
InitWatch == CoreIdle /\ ExtIdle

Deliver(event, r) ==
    /\ \A p \in {event.src_path, event.dest_path} :
            p = "seen" => wCache.others > 0
    /\ wCache' = r.cache
    /\ wLast' = [type |-> event.type, event |-> event, before |-> wCache,
                 called |-> r.called, arg |-> r.arg]
    /\ UNCHANGED <<coreVars, parseVars, hashVars, thumbVars, importVars, catVars>>

OnClose ==
    \E event \in WatchEvents("on_close") :
        Deliver(event, on_close(wCache, event))

OnCreated ==
    \E event \in WatchEvents("on_created") :
        Deliver(event, on_created(wCache, event))

OnMoved ==
    \E event \in WatchEvents("on_moved") :
        Deliver(event, on_moved(wCache, event))

NextWatch == OnClose \/ OnCreated \/ OnMoved

SpecWatch == InitWatch /\ [][NextWatch]_vars

(***************************************************************************)
(* SpecCatalog: ingestions of one content, one after another, through      *)
(* get_or_create_from_file and through import_file.  Both sources hold     *)
(* the content, side by side on one device with one modification time;    *)
(* the canonical path is absent, or holds the content, or                  *)
(* (with no row in the catalog) holds other bytes; "o" is a second name of *)
(* the canonical file.                                                     *)
(***************************************************************************)
InitCatalog ==
    /\ \E dd \in Devs, n \in 0..DirDepth, c \in Contents,
          fd \in Contents \X Mtimes,
          hasDst \in BOOLEAN, hasOther \in BOOLEAN, hasRow \in BOOLEAN :
        /\ c = <<0>>                       \* up to renaming contents
        /\ hasDst => n = DirDepth
        /\ hasOther => hasDst
        /\ ~hasDst => fd = <<<<0>>, 1>>
        /\ hasRow => hasDst /\ fd[1] = c
        /\ hasOther => fd[1] = c
        /\ sdev = [p \in Paths |-> IF p \in Sources THEN 1 ELSE dd]
        /\ dirs = DirsUpTo(n, dd)
        /\ ent = [p \in Paths |->
                    CASE p = "s1" -> 1
                      [] p = "s2" -> 2
                      [] p = "d"  -> IF hasDst THEN 3 ELSE 0
                      [] p = "o"  -> IF hasOther THEN 3 ELSE 0]
        /\ ino = [i \in Inos |->
                    CASE i = 1 -> [dev |-> 1, data |-> c, mtime |-> 1]
                      [] i = 2 -> [dev |-> 1, data |-> c, mtime |-> 1]
                      [] i = 3 -> IF hasDst
                                  THEN [dev |-> dd, data |-> fd[1], mtime |-> fd[2]]
                                  ELSE NoInode
                      [] OTHER -> NoInode]
        /\ cat = [NoCatalog EXCEPT !.digest = c,
                                   !.rows = IF hasRow THEN {c} ELSE {},
                                   !.orphan = FALSE]
    /\ call = NoCall
    /\ proc = AllIdle
    /\ hist = <<>>
    /\ mIn = NoInput
    /\ mOut = Pending
    /\ pIn = NoPathIn
    /\ pOut = NoPathOut
    /\ ParseIdle /\ HashIdle /\ ThumbIdle /\ ImportIdle /\ WatchIdle

\* the content followed is the one at filepath
Followed(filepath) == Exists(FS, filepath) => DataOf(FS, filepath) = cat.digest

\* IndexedFile.objects.get_or_create_from_file(filepath, only_hard_link)
GetOrCreateFromFile(filepath, ohl, save) ==
    /\ cat.n < MaxIngests
    /\ Followed(filepath)
    /\ \E g \in {get_or_create_with_filepath_nfo(FS, cat, filepath, ohl, save)} :
           /\ ent' = g.F.ent
           /\ ino' = g.F.ino
           /\ dirs' = g.F.dirs
           /\ cat' = [g.C EXCEPT !.n = @ + 1]
           /\ call' = [kind |-> "get_or_create", filepath |-> filepath,
                       delete_after |-> FALSE,
                       exc |-> g.exc, created |-> g.created,
                       signal |-> g.signal, error |-> "-",
                       row_before |-> cat.rows # {}, orphan_before |-> cat.orphan,
                       signals_before |-> cat.signals,
                       row |-> g.C.rows # {},
                       present |-> Exists(g.F, Dst),
                       kept |-> Exists(g.F, filepath)]
    /\ UNCHANGED <<sdev, proc, hist, mIn, mOut, pIn, pOut,
                   parseVars, hashVars, thumbVars, importVars, watchVars>>

\* import_file(filepath, only_hard_link, delete_after, validate)
ImportFile(filepath, ohl, delete_after, validate, save) ==
    /\ cat.n < MaxIngests
    /\ Followed(filepath)
    /\ \E r \in {import_file_stored(FS, cat, filepath, ohl, delete_after,
                                   validate, save)} :
           /\ ent' = r.F.ent
           /\ ino' = r.F.ino
           /\ dirs' = r.F.dirs
           /\ cat' = [r.g.C EXCEPT !.n = @ + 1]
           /\ call' = [kind |-> "import_file", filepath |-> filepath,
                       delete_after |-> delete_after,
                       exc |-> r.g.exc, created |-> r.g.created,
                       signal |-> r.g.signal, error |-> r.error,
                       row_before |-> cat.rows # {}, orphan_before |-> cat.orphan,
                       signals_before |-> cat.signals,
                       row |-> r.g.C.rows # {},
                       present |-> Exists(r.g.F, Dst),
                       kept |-> Exists(r.F, filepath)]
    /\ UNCHANGED <<sdev, proc, hist, mIn, mOut, pIn, pOut,
                   parseVars, hashVars, thumbVars, importVars, watchVars>>

NextCatalog ==
    \E filepath \in Paths, ohl \in BOOLEAN, save \in {"ok", "raises"} :
        \/ GetOrCreateFromFile(filepath, ohl, save)
        \/ \E delete_after \in BOOLEAN, validate \in BOOLEAN :
                ImportFile(filepath, ohl, delete_after, validate, save)

SpecCatalog == InitCatalog /\ [][NextCatalog]_vars

(***************************************************************************)
(* Properties of the placement engine.                                     *)
(***************************************************************************)
Called == Len(hist) > 0
Last   == hist[Len(hist)]

\* the device smartadd compares the source's device with
DstDevice(F) == IF Exists(F, Dst) THEN StDev(F, Dst) ELSE DstDirDev(F)

\* dst exists before the call, is another file than src, with other bytes
Mismatch(c) ==
    /\ Exists(c.pre, c.src) /\ Exists(c.pre, Dst)
    /\ ~SameFile(c.pre, c.src, Dst)
    /\ DataOf(c.pre, c.src) # DataOf(c.pre, Dst)

\* C1: a smartadd(src, dst) call that finds dst present, not the same file
\* as src and with different bytes fails with an assertion error and
\* leaves the file system as it was.
C1_MismatchFailsLoudly ==
    Called /\ ~Last.ohl /\ Mismatch(Last)
        => Last.out = "AssertionError" /\ FS = Last.pre

\* dst exists before the call as a file of its own (one link) whose bytes
\* equal those of src, on src's device
SeparateCopy(c) ==
    /\ Exists(c.pre, c.src) /\ Exists(c.pre, Dst)
    /\ ~SameFile(c.pre, c.src, Dst)
    /\ DataOf(c.pre, c.src) = DataOf(c.pre, Dst)
    /\ StDev(c.pre, c.src) = StDev(c.pre, Dst)

\* two calls, smartadd(s1, dst) then smartadd(s2, dst), both returned, for
\* distinct sources with the same bytes on the destination's device
BothPlaced ==
    /\ Len(hist) = 2
    /\ hist[1].src = "s1" /\ hist[2].src = "s2"
    /\ hist[1].out = "ok" /\ hist[2].out = "ok"
    /\ LET F0 == hist[1].pre
       IN  /\ ~SameFile(F0, "s1", "s2")
           /\ DataOf(F0, "s1") = DataOf(F0, "s2")
           /\ StDev(F0, "s1") = DstDevice(F0)
           /\ StDev(F0, "s2") = DstDevice(F0)

\* C2: after both of two byte-identical sources on the destination's device
\* were placed, s1, s2 and dst are one inode; and placing src onto a
\* separate identical copy at dst (a file with one link) leaves src and dst
\* on one inode with link count 2.
C2_DedupByHardlink ==
    /\ BothPlaced =>
          /\ Exists(FS, Dst)
          /\ SameFile(FS, "s1", Dst) /\ SameFile(FS, "s2", Dst)
    /\ Called /\ Last.out = "ok" /\ SeparateCopy(Last)
               /\ NLinkOf(Last.pre, Last.pre.ent[Dst]) = 1
               /\ NLinkOf(Last.pre, Last.pre.ent[Last.src]) = 1
          => /\ Exists(FS, Dst) /\ SameFile(FS, Last.src, Dst)
             /\ NLinkOf(FS, ent[Dst]) = 2

\* both cases of C2 have happened: the second source was placed onto the
\* dst the first call made, itself a separate copy until then
C2_Witness ==
    /\ BothPlaced
    /\ SeparateCopy(Last) /\ NLinkOf(Last.pre, Last.pre.ent[Dst]) = 2
    /\ ~Exists(hist[1].pre, Dst)
    /\ NLinkOf(FS, ent[Dst]) = 3

\* C3: placement is idempotent: the same call made again after it
\* succeeded succeeds and makes no call that changes the file system; and
\* any call that finds dst to be the same file as src returns without one.
C3_Idempotent ==
    /\ Len(hist) = 2 /\ hist[1].src = hist[2].src /\ hist[1].ohl = hist[2].ohl
                     /\ hist[1].out = "ok"
          => hist[2].out = "ok" /\ hist[2].mods = 0 /\ FS = hist[2].pre
    /\ Called /\ Exists(Last.pre, Last.src) /\ Exists(Last.pre, Dst)
               /\ SameFile(Last.pre, Last.src, Dst)
          => Last.out = "ok" /\ Last.mods = 0 /\ FS = Last.pre

\* a call that linked src to a new dst, made again
C3_Witness ==
    /\ Len(hist) = 2 /\ hist[1].src = hist[2].src /\ hist[1].ohl = hist[2].ohl
    /\ hist[1].out = "ok" /\ hist[1].mods > 0
    /\ SameFile(hist[2].pre, hist[2].src, Dst)
    /\ hist[2].out = "ok"

\* src and the place of dst are on different devices before the call
CrossDevice(c) ==
    /\ Exists(c.pre, c.src)
    /\ StDev(c.pre, c.src) # DstDevice(c.pre)

\* C4: across devices with only_hard_link, smartadd raises
\* CannotHardLinkError and changes nothing: no file at dst that was not
\* there, no parent directory created.
C4_CannotHardLink ==
    Called /\ Last.ohl /\ CrossDevice(Last)
        => /\ Last.out = "CannotHardLinkError"
           /\ Last.mods = 0
           /\ FS = Last.pre

\* such a call toward an absent dst whose parent directories are missing
C4_Witness ==
    /\ Called /\ Last.ohl /\ CrossDevice(Last)
    /\ ~Exists(Last.pre, Dst) /\ Last.pre.dirs[DirDepth] = 0
    /\ Last.out = "CannotHardLinkError"

\* C5: across devices without only_hard_link: an absent dst becomes a file
\* on an inode of its own with src's bytes, src untouched; a dst that
\* already holds src's bytes makes the call a no-op.
C5_CrossDeviceCopy ==
    Called /\ ~Last.ohl /\ CrossDevice(Last) =>
        /\ ~Exists(Last.pre, Dst) =>
              /\ Last.out = "ok"
              /\ Exists(FS, Dst) /\ ~SameFile(FS, Last.src, Dst)
              /\ NLinkOf(FS, ent[Dst]) = 1
              /\ DataOf(FS, Dst) = DataOf(Last.pre, Last.src)
              /\ StDev(FS, Dst) = DstDevice(Last.pre)
              /\ \A s \in Sources : ent[s] = Last.pre.ent[s]
              /\ \A s \in Sources : ino[ent[s]] = Last.pre.ino[ent[s]]
        /\ Exists(Last.pre, Dst) /\ DataOf(Last.pre, Dst) = DataOf(Last.pre, Last.src) =>
              Last.out = "ok" /\ Last.mods = 0 /\ FS = Last.pre

\* a copy made by one call and found in place by the next
C5_Witness ==
    /\ Len(hist) = 2 /\ ~hist[1].ohl /\ ~hist[2].ohl
    /\ CrossDevice(hist[1]) /\ ~Exists(hist[1].pre, Dst) /\ hist[1].out = "ok"
    /\ CrossDevice(hist[2]) /\ Exists(hist[2].pre, Dst) /\ hist[2].out = "ok"
    /\ hist[2].mods = 0

\* C23: a call that finds dst present on src's device, on another inode
\* with src's bytes, keeps dst as the canonical inode: dst's inode number,
\* its bytes and every other name of it are as before, src now names dst's
\* inode, whose link count grew by one, and src's former inode lost a link.
C23_DstStaysCanonical ==
    Called /\ SeparateCopy(Last) =>
        LET P == Last.pre
            d == P.ent[Dst]
            s == P.ent[Last.src]
        IN  /\ Last.out = "ok"
            /\ ent[Dst] = d
            /\ ino[d] = P.ino[d]
            /\ \A p \in Paths \ {Last.src} : P.ent[p] = d => ent[p] = d
            /\ ent[Last.src] = d
            /\ NLinkOf(FS, d) = NLinkOf(P, d) + 1
            /\ NLinkOf(FS, s) = NLinkOf(P, s) - 1

\* such a call toward a dst that had another hard link before it
C23_Witness ==
    /\ Called /\ SeparateCopy(Last) /\ Last.out = "ok"
    /\ Last.pre.ent["o"] = Last.pre.ent[Dst]
    /\ NLinkOf(Last.pre, Last.pre.ent[Dst]) = 2
    /\ NLinkOf(FS, ent[Dst]) = 3

(***************************************************************************)
(* Two concurrent callers (SpecConc).                                      *)
(***************************************************************************)
\* C6: with two callers placing identical content toward the same absent
\* dst at once, neither call fails, and once both have ended every source
\* path and dst exist and hold the content.
C6_ConcurrentConverges ==
    /\ \A p \in Procs : proc[p].pc = "end" => proc[p].out = "ok"
    /\ (\A p \in Procs : proc[p].pc = "end") =>
          /\ Exists(FS, Dst)
          /\ \A p \in Procs : /\ Exists(FS, proc[p].src)
                               /\ DataOf(FS, proc[p].src) = DataOf(FS, Dst)
(***************************************************************************)
(* One call with failing file-system calls (SpecFault).                    *)
(***************************************************************************)
\* path p exists in F and holds the bytes b
Holds(F, p, b) == Exists(F, p) /\ DataOf(F, p) = b

\* C25: smartadd never loses the source: once a call on an existing src
\* has ended, by return or by raising at any file-system step, src exists
\* with its original bytes; and at every step in between those bytes are
\* held by src or by dst.
C25_SourceNeverLost ==
    Len(hist) = 1 /\ Exists(hist[1].pre, hist[1].src) =>
        LET c == hist[1]
            b == DataOf(c.pre, c.src)
        IN  /\ proc[FaultCaller].pc = "end" => Holds(FS, c.src, b)
            /\ Holds(FS, c.src, b) \/ Holds(FS, Dst, b)

(***************************************************************************)
(* Properties of the storage path (SpecPath).                              *)
(***************************************************************************)
\* the characters of file k's digest: its base-32 text before the padding
DigestChars(k) == SubSeq(pIn.b32[k], 1, DigestLen)

\* MEDIA_ROOT made absolute, for the roots of MediaRoots
AbsoluteRoot(root) ==
    CASE root.abs                      -> <<<<"srv">>, <<"media">>>>
      [] root.parts = <<<<"media">>>>  -> <<<<"app">>, <<"media">>>>
      [] OTHER                         -> <<<<"media">>>>

\* C7: the storage path is fileindex/<d[0:2]>/<d[2:4]>/<d> for the unpadded
\* digest d, with no extension; two different digests of hash_file never
\* share a path; and the artifact is placed at the absolute MEDIA_ROOT
\* joined with that path.
C7_StoragePath ==
    /\ \A k \in DOMAIN pOut :
          LET d == DigestChars(k)
          IN  /\ pOut[k].sha512 = d
              /\ pOut[k].path = <<<<"fileindex">>, <<d[1], d[2]>>, <<d[3], d[4]>>, d>>
              /\ \A i \in 1..Len(d) : d[i] # "="
              /\ pOut[k].dest.abs
              /\ pOut[k].dest.parts = AbsoluteRoot(pIn.root) \o pOut[k].path
    /\ \A j, k \in DOMAIN pOut :
          pOut[j].sha512 # pOut[k].sha512 =>
              pOut[j].path # pOut[k].path /\ pOut[j].dest # pOut[k].dest

\* two files with different digests in the same first-level directory,
\* placed under a relative MEDIA_ROOT
C7_Witness ==
    /\ DOMAIN pOut = {1, 2}
    /\ pOut[1].sha512 # pOut[2].sha512
    /\ pOut[1].path[2] = pOut[2].path[2]
    /\ ~pIn.root.abs

(***************************************************************************)
(* Properties of the classifier (SpecMeta).                                *)
(***************************************************************************)
Family == LET m == MimeInUse(mIn)
          IN  IF m = "none" THEN "other"
              ELSE IF StartsWith(m, "image/") THEN "image"
              ELSE IF StartsWith(m, "video/") THEN "video"
              ELSE IF StartsWith(m, "audio/") THEN "audio"
              ELSE "other"

\* the external probe failed: not installed, non-zero exit, timeout,
\* another subprocess error, or output that is no JSON
ProbeFailed == Family \in {"video", "audio"} /\ mIn.probe.run # "ok"

\* an exception was raised while extracting for the file's family
ExtractionRaised ==
    \/ Family = "image" /\ image_try(mIn.img, MimeInUse(mIn)).kind = "raise"
    \/ Family = "video" /\ video_try(mIn.probe, mIn.mi).kind = "raise"
    \/ Family = "audio" /\ audio_try(mIn.probe, mIn.mi).kind = "raise"

\* C8: extract_metadata returns a pair and never raises; an exception
\* raised while extracting, and any failure of the probe, ends in
\* corrupt = true.
C8_NeverRaises ==
    mOut.done =>
        /\ mOut.exc = "none"
        /\ mOut.corrupt \in BOOLEAN
        /\ ExtractionRaised \/ ProbeFailed => mOut.corrupt

\* a video whose stream data makes the extraction raise a TypeError
C8_Witness ==
    /\ mOut.done /\ Family = "video"
    /\ mIn.probe.run = "ok" /\ ExtractionRaised
    /\ mOut.corrupt

\* C9: a result with corrupt = false has, for an image, positive width and
\* height; for a video, positive width, height, frame rate and duration;
\* for an audio file, a positive duration.
C9_ValidHasRequired ==
    mOut.done /\ ~mOut.corrupt =>
        LET md == mOut.metadata
        IN  /\ Family = "image" =>
                  /\ Has(md, "image")
                  /\ md["image"]["width"] > 0 /\ md["image"]["height"] > 0
            /\ Family = "video" =>
                  /\ Has(md, "video") /\ Has(md, "duration")
                  /\ md["video"]["width"].t = "int" /\ md["video"]["width"].v > 0
                  /\ md["video"]["height"].t = "int" /\ md["video"]["height"].v > 0
                  /\ Has(md["video"], "frame_rate")
                  /\ md["video"]["frame_rate"].num * md["video"]["frame_rate"].den > 0
                  /\ md["duration"] > 0
            /\ Family = "audio" =>
                  Has(md, "duration") /\ md["duration"] > 0

\* a video classified as valid
C9_Witness ==
    /\ mOut.done /\ ~mOut.corrupt /\ Family = "video"
    /\ Has(mOut.metadata, "mediainfo")

\* the image was opened, has positive dimensions and a thumbhash
ImageObtained ==
    /\ mIn.img.open = "ok" /\ mIn.img.width > 0 /\ mIn.img.height > 0
    /\ mIn.img.thumb = "ok"

\* the animation duration of the image is absent, zero, or its parser raised
NoUsableDuration ==
    \/ MimeInUse(mIn) \notin ANIMATED_IMAGE_FORMATS
    \/ mIn.img.anim \in {None, JInt(0), [t |-> "raise", v |-> 0]}

\* C11: an image result with corrupt = false has animated = true exactly
\* when it has a duration, which is then positive; and an image whose
\* dimensions and thumbhash were obtained but whose duration is absent, zero
\* or unparsable is returned with corrupt = false and animated = false.
C11_AnimatedIffDuration ==
    mOut.done /\ Family = "image" =>
        LET md == mOut.metadata
        IN  /\ ~mOut.corrupt =>
                  /\ Has(md, "image") /\ Has(md["image"], "animated")
                  /\ md["image"]["animated"] <=> Has(md, "duration")
                  /\ Has(md, "duration") => md["duration"] > 0
            /\ ImageObtained /\ NoUsableDuration =>
                  /\ ~mOut.corrupt
                  /\ Has(md, "image") /\ md["image"]["animated"] = FALSE
                  /\ ~Has(md, "duration")

\* a GIF with dimensions and thumbhash whose frame walk raised
C11_Witness ==
    /\ mOut.done /\ Family = "image" /\ MimeInUse(mIn) = "image/gif"
    /\ ImageObtained /\ mIn.img.anim = [t |-> "raise", v |-> 0]
    /\ ~mOut.corrupt /\ mOut.metadata["image"]["animated"] = FALSE

\* C10: a result with corrupt = true for an image, video or audio file
\* carries empty metadata.
C10_CorruptIsEmpty ==
    mOut.done /\ mOut.corrupt /\ Family \in {"image", "video", "audio"}
        => DOMAIN mOut.metadata = {}

\* a video with valid dimensions and frame rate but no duration
C10_Witness ==
    /\ mOut.done /\ mOut.corrupt /\ Family = "video"
    /\ mIn.probe.run = "ok" /\ mIn.probe.data.shape = "dict"
    /\ mIn.probe.data.video.present
    /\ mIn.probe.data.video.width = JInt(2) /\ mIn.probe.data.video.height = JInt(2)
    /\ mIn.probe.data.video.r_frame_rate = [k |-> "ratio", num |-> 30, den |-> 1]
    /\ ~mIn.probe.data.hasFormat /\ mIn.probe.data.video.duration = None
    /\ mIn.probe.data.audio.duration = None
    /\ DOMAIN mOut.metadata = {}

(***************************************************************************)
(* Properties of the duration parsers (SpecParse).                         *)
(***************************************************************************)
\* the offset of the first b"mvhd" in the whole file, -1 when there is none
FirstMvhd(f) == BytesFind(f, 0, FileLen(f), MVHD)

\* inputs the parsers have nothing to read a duration from: a missing or
\* empty file, a WebP file without its RIFF or WEBP signature, an AVIF file
\* without the tag
NothingToParse ==
    \/ ~aFile.file.exists
    \/ FileLen(aFile.file) = 0
    \/ aFile.kind = "webp" /\ aFile.hdr # "ok"
    \/ aFile.kind = "avif" /\ FirstMvhd(aFile.file) = -1

\* the file was cut short at some byte
Truncated == aFile.file.exists /\ ~aFile.whole

RECURSIVE FrameDurations(_)
FrameDurations(cs) ==
    IF cs = <<>> THEN <<>>
    ELSE (IF Head(cs).cc = ANMF /\ Head(cs).size >= 15
          THEN <<Head(cs).dur>> ELSE <<>>) \o FrameDurations(Tail(cs))

RECURSIVE SumSeq(_)
SumSeq(q) == IF q = <<>> THEN 0 ELSE Head(q) + SumSeq(Tail(q))

\* C13: for a file with valid RIFF and WEBP signatures, parse_webp_duration
\* returns the sum of the frame durations at payload bytes 12-14 of all
\* ANMF chunks when more than one frame was counted and the sum is
\* positive, and None otherwise.
C13_WebpSumOfFrames ==
    aOut.done /\ aFile.kind = "webp" /\ aFile.file.exists
              /\ aFile.hdr = "ok" /\ aFile.whole =>
        LET d == FrameDurations(aFile.chunks)
        IN  aOut.val = IF Len(d) > 1 /\ SumSeq(d) > 0 THEN JInt(SumSeq(d))
                                                      ELSE None


\* C20: _find_mvhd_box_streaming returns the offset in the file of the
\* first b"mvhd", wherever the tag lies with respect to the read windows,
\* and -1 when there is none.
C20_MvhdOffset ==
    aOut.done /\ aFile.kind = "avif" /\ aFile.file.exists =>
        aOut.mvhd_pos = FirstMvhd(aFile.file)

(***************************************************************************)
(* Properties of hashing with a progress callback (SpecHash).              *)
(***************************************************************************)
\* the chunks hash_file has to read of a file of hIn.size bytes
ChunksOf == (hIn.size + hIn.chunk_size - 1) \div hIn.chunk_size

CallbackRaised ==
    /\ hIn.cb.passed /\ hIn.cb.raisesAt > 0
    /\ Len(hSt.calls) >= hIn.cb.raisesAt

FullyOpaque(img) ==
    img.base = 255 /\ (img.odd \in 1..(img.w * img.h) => img.oddval = 255)

\* the 4-bit values packed behind the first n bytes of a hash, low half
\* first
RECURSIVE NibblesFrom(_, _)
NibblesFrom(hash, n) ==
    IF Len(hash) <= n THEN <<>>
    ELSE <<hash[n + 1] % 16, hash[n + 1] \div 16>> \o NibblesFrom(hash, n + 1)

\* the number of AC terms the encoder's grids give: luma, P and Q, and
\* alpha when the image has transparency
ACTerms(img, alpha) ==
    ac_count(Max(3, lx(img)), Max(3, ly(img))) + 2 * ac_count(3, 3)
        + (IF alpha THEN ac_count(5, 5) ELSE 0)

\* C16: a width or height above 100 is rejected with ValueError; otherwise
\* bit 23 of the 24-bit header is has_alpha, which is 0 for a fully opaque
\* image, whose alpha byte and alpha AC values are then left out; the
\* output is 5 header bytes, one more when has_alpha, and ceil(n / 2) bytes
\* for the n AC values, two per byte in the order luma, P, Q, alpha.
C16_ThumbHashLayout ==
    tOut.done =>
        LET img   == tIn.img
            alpha == ~FullyOpaque(img)
            n     == ACTerms(img, alpha)
            first == IF alpha THEN 6 ELSE 5
        IN  IF img.w > 100 \/ img.h > 100
            THEN tOut.exc = "ValueError"
            ELSE /\ tOut.exc = "none"
                 /\ tOut.hash[3] \div 128 = (IF alpha THEN 1 ELSE 0)
                 /\ Len(tOut.hash) = first + (n + 1) \div 2
                 /\ alpha => tOut.hash[6] = tIn.q.a_dc + 16 * tIn.q.a_scale
                 /\ SubSeq(NibblesFrom(tOut.hash, first), 1, n)
                       = ac_nibbles(img, tIn.q)

\* a fully opaque square image: the 7 x 7 luma grid, no alpha block
C16_Witness ==
    /\ tOut.done /\ tOut.exc = "none"
    /\ FullyOpaque(tIn.img) /\ tIn.img.w = 40 /\ tIn.img.h = 40
    /\ Len(tOut.hash) = 5 + (27 + 5 + 5 + 1) \div 2

(***************************************************************************)
(* Properties of the import service.                                       *)
(***************************************************************************)
Importing      == iSt.pc # "idle"
ImportFinished == iSt.pc \in {"done", "raised"}
Rejected(f)    == should_import(f) = Ok(FALSE)
NonValidationError(a) ==
    a.exc = "none" /\ a.error \notin {"None", "VALIDATION_FAILED"}

\* what import_file is to return for what path f names
ExpectedReturn(f, validate) ==
    IF validate /\ Rejected(f)
      THEN <<"None", FALSE, "VALIDATION_FAILED">>
    ELSE IF ~os_path_exists(f)
      THEN <<"None", FALSE, "FILE_NOT_EXISTS">>
    ELSE IF get_or_create_from_file(f).exc # "none"
      THEN <<"None", FALSE, "IMPORT_FAILED">>
    ELSE <<"row", f.index = "created", "None">>

\* C17: every call of import_file returns, never raises; it returns
\* (None, False, VALIDATION_FAILED) when validate is set and should_import
\* rejects the path, else (None, False, FILE_NOT_EXISTS) when the path does
\* not exist, else (None, False, IMPORT_FAILED) when indexing raises, else
\* (indexed_file, created, None); and it deletes the original only when
\* delete_after is set and indexing succeeded.
C17_ImportFileOutcomes ==
    Importing =>
        \A k \in 1..Len(iSt.log) :
            LET a == iSt.log[k]
            IN  /\ a.exc = "none"
                /\ <<a.indexed_file, a.created, a.error>>
                       = ExpectedReturn(a.before, iIn.validate)
                /\ a.deleted => iIn.delete_after /\ a.error = "None"

KeepsGoing == iIn.fn = "import_directory" \/ ~iIn.stop_on_error

\* C18: import_directory, and batch_import_files without stop_on_error,
\* attempt every file of their list in order, whatever became of the files
\* before it; batch_import_files with stop_on_error attempts no file after
\* the first that ended in an error other than a validation skip, and is
\* stopped by nothing else.
C18_BatchContinues ==
    Importing =>
        /\ \A k \in 1..Len(iSt.log) : iSt.log[k].path = iSt.files[k]
        /\ ImportFinished /\ KeepsGoing => Len(iSt.log) = Len(iSt.files)
        /\ ~KeepsGoing =>
              /\ \A k \in 1..(Len(iSt.log) - 1) :
                     ~NonValidationError(iSt.log[k])
              /\ ImportFinished /\ Len(iSt.log) < Len(iSt.files)
                    => NonValidationError(iSt.log[Len(iSt.log)])

(***************************************************************************)
(* Properties of the watch handler.                                        *)
(***************************************************************************)
WatchHandled == wLast # NoEvent
EventPath(e) == IF e.type = "on_moved" THEN e.dest_path ELSE e.src_path

\* C19: a directory event never calls the callback; a file event calls it,
\* with the event's path (dest_path for a move), exactly when that path is
\* not in processed_files, and then the path is in processed_files, so a
\* repeated event does not call it again; and when the path is new and
\* processed_files holds more than 1000 entries, processed_files is
\* emptied first and holds only that path afterwards.
C19_WatchDedup ==
    WatchHandled =>
        LET e    == wLast.event
            p    == EventPath(e)
            seen == InCache(wLast.before, p)
        IN  /\ e.is_directory => ~wLast.called /\ wCache = wLast.before
            /\ ~e.is_directory =>
                  /\ wLast.called <=> ~seen
                  /\ wLast.called => wLast.arg = p
                  /\ seen => wCache = wLast.before
                  /\ ~seen /\ CacheLen(wLast.before) > ProcessedFilesLimit
                        => wCache = CacheAdd(EmptyCache, p)
                  /\ ~seen /\ CacheLen(wLast.before) <= ProcessedFilesLimit
                        => wCache = CacheAdd(wLast.before, p)

C19_Witness ==
    /\ WatchHandled
    /\ wLast.type = "on_moved" /\ ~wLast.event.is_directory
    /\ CacheLen(wLast.before) > ProcessedFilesLimit
    /\ wLast.called /\ wLast.arg = wLast.event.dest_path
    /\ CacheLen(wCache) = 1

(***************************************************************************)
(* Properties of the parsers' loops and of the AVIF fields.                *)
(***************************************************************************)
\* C21: every pass of the WebP chunk loop over a chunk whose header starts
\* at offset o and declares s bytes of payload leaves the file object at
\* o + 8 + s + (s mod 2), whatever the chunk's fourcc and whether or not a
\* frame duration could be read from it.
C21_ChunkSkippedOnce ==
    scan.last # NoChunk =>
        scan.last.next = scan.last.o + WEBP_CHUNK_HEADER_SIZE + scan.last.s
                           + (scan.last.s % 2)

\* the quotient (duration * 1000) div timescale of the fields of the mvhd
\* box at offset p of file f, as binary digits; at is where the timescale
\* stands, w the width of the duration
ExactQuotient(f, at, w) ==
    DivMod(MulFrom(LimbsOfBytes(Bytes(f, at + 4, w)), 1000, 1, 0), 0,
           LimbsOfBytes(Bytes(f, at, 4))).q

\* C22: with the mvhd box found at its offset p, parse_avif_duration
\* returns None when the version byte is neither 0 nor 1, when the box is
\* cut before the end of its fields (a 32-bit timescale and a 32-bit
\* duration behind 8 bytes of times in version 0, a 32-bit timescale and
\* a 64-bit duration behind 16 bytes of times in version 1) and when the
\* timescale is 0; otherwise, the quotient (duration * 1000) div timescale
\* being positive, it returns that quotient.
C22_AvifDuration ==
    LET f == aFile.file
        p == FirstMvhd(f)
        version == ByteAt(f, p + 4)
        at == p + 8 + (IF version = 0 THEN 8 ELSE 16)
        w  == IF version = 0 THEN 4 ELSE 8
    IN  aOut.done /\ aFile.kind = "avif" /\ f.exists
                  /\ p # -1 /\ aOut.mvhd_pos = p =>
            IF FileLen(f) < p + 8 THEN aOut.val = None
            ELSE IF version \notin {0, 1} THEN aOut.val = None
            ELSE IF FileLen(f) < at + 4 + w THEN aOut.val = None
            ELSE IF LimbsZero(LimbsOfBytes(Bytes(f, at, 4)))
                 THEN aOut.val = None
            ELSE ExactQuotient(f, at, w) # <<>>
                    => aOut.val = JInt(BitsToInt(ExactQuotient(f, at, w)))

ScanDone == scan.pc = "done"

\* C30: both parsers come to an end on every file.  Every pass of the WebP
\* chunk loop moves the file object on by at least 8 bytes, and the loop
\* is left at the first header read that returns fewer than 8 bytes; the
\* mvhd search ends with the tag found or at the first empty read.
C30_ParsersTerminate ==
    /\ [](scan.last # NoChunk
            => scan.last.next >= scan.last.o + WEBP_CHUNK_HEADER_SIZE)
    /\ [](ScanDone /\ aFile.kind = "webp" /\ validate_webp_headers(aFile.file)
            => ReadLen(aFile.file, scan.pos, WEBP_CHUNK_HEADER_SIZE)
                 < WEBP_CHUNK_HEADER_SIZE)
    /\ [](ScanDone /\ aFile.kind = "avif"
            => \/ scan.ret # -1
               \/ ReadLen(aFile.file, scan.pos, AVIF_SEARCH_BUFFER_SIZE) = 0)
    /\ <>ScanDone

\* the chunk loop ended behind a chunk that declares a payload reaching far
\* past the end of the file, having passed a chunk of size 0 before
C30_Witness ==
    /\ ScanDone /\ aFile.kind = "webp" /\ Len(aFile.chunks) = 2
    /\ aFile.chunks[1].size = 0
    /\ scan.last.s = HugeSize /\ scan.last.next > FileLen(aFile.file)

(***************************************************************************)
(* Properties of the catalog with its store (SpecCatalog).                 *)
(***************************************************************************)
\* the last call came to get_or_create_with_filepath_nfo
Ingested == call.kind # "none" /\ call.exc # "not called"

\* C24: indexedfile_added is sent in the calls that made a new row and
\* went on to return, and only with the file present at its canonical path
\* and the row in the catalog; never in a call in which placement or save
\* raised; and over a sequence of ingestions of one content at most once.
C24_SignalOncePerContent ==
    /\ Ingested =>
          /\ call.signal <=> (~call.row_before /\ call.exc = "none")
          /\ call.signal => call.created /\ call.present /\ call.row
          /\ call.exc # "none" => ~call.signal
    /\ cat.signals <= 1

\* a second ingestion of the content, after the one that sent the signal
C24_Witness ==
    /\ Ingested /\ cat.n = 2
    /\ call.signals_before = 1 /\ cat.signals = 1
    /\ call.exc = "none" /\ ~call.created /\ ~call.signal

\* C26: after a get_or_create_from_file call, returned or raised, a row
\* of the catalog has its file at the canonical path; and a call that
\* returns "not created" does not follow a call that made the row and
\* failed to place the file.
C26_CatalogMatchesStore ==
    Ingested =>
        /\ call.row => call.present
        /\ call.exc = "none" /\ ~call.created => ~call.orphan_before

\* C27: import_file with delete_after that returns without error leaves
\* the canonical path in place, holding the ingested bytes.
C27_DeleteKeepsArtifact ==
    call.kind = "import_file" /\ call.delete_after /\ call.error = "None"
        => Holds(FS, Dst, cat.digest)

(***************************************************************************)
(* The row of a classified file (SpecMeta).                                *)
(***************************************************************************)
\* the row get_or_create_with_filepath_nfo makes of the classified file
\* (its mime type is the one `file` printed, never None)
ClassifiedRow == IndexedFileRow(mIn.mime, mOut.metadata, mOut.corrupt)

\* a row flagged animated, at the root or under "image"
FlaggedAnimated(row) ==
    \/ IsTrueAt(row.metadata, "animated")
    \/ Has(row.metadata, "image") /\ IsTrueAt(row.metadata["image"], "animated")

\* C28: whatever the classifier answers, the row made from it satisfies
\* the four check constraints: without corrupt = True, image and video
\* rows have dimensions, audio and video rows a duration, video rows a
\* frame rate, and rows flagged animated a duration.
C28_RowSatisfiesConstraints ==
    mOut.done /\ mIn.mime # "none" =>
        LET row == ClassifiedRow
        IN  /\ visual_media_requires_dimensions(row)
            /\ media_requires_duration(row)
            /\ video_requires_frame_rate(row)
            /\ animated_requires_duration(row)
            /\ row.corrupt # "True" /\ FlaggedAnimated(row) =>
                  Has(row.metadata, "duration")

\* a video whose classification failed: the row passes as corrupt only
C28_Witness ==
    /\ mOut.done /\ mIn.mime = "video/mp4" /\ mOut.corrupt
    /\ ClassifiedRow.metadata = Empty /\ ClassifiedRow.corrupt = "True"

====
